---- MODULE Spec2Model ----
(***************************************************************************)
(* A model of typst-oxide: the index layer (src/src/index.rs) with the     *)
(* four SQLite tables, store_file, remove_file and the queries over them,  *)
(* store_file calls on two connections, and the parser (src/src/parser):   *)
(* parse_wikilinks, parse_labels, extract_metadata, parse_file and         *)
(* parse_content.                                                          *)
(*                                                                         *)
(* Text that the code converts or scans (metadata values, JSON, the text   *)
(* of a file, the output of the typst command) is a sequence of            *)
(* one-character strings, one per char; a char has the length in bytes     *)
(* that len_utf8 gives it.  Names that the index only compares (stems,     *)
(* keys, wikilink targets) are TLA+ strings.  The tables metadata,         *)
(* wikilinks and labels are kept as sequences in rowid order: a new row    *)
(* always gets a rowid above every row left in its table, and the queries  *)
(* of the code walk an index on file_id, which yields the rows of one file *)
(* in rowid order.  The timestamp columns of files are not modelled.       *)
(* Foreign keys are declared but not enforced (SQLite's default).          *)
(***************************************************************************)
EXTENDS Integers, Sequences, FiniteSets, TLC

VARIABLES
    files, metadata, wikilinks, labels,   \* the four tables of .pkm-cache.db
    ret,      \* the last call on the Index and what it returned
    latest,   \* per path, the ParsedFile of its last successful store_file
    reader,   \* a get_file in progress on a second connection
    hist,     \* per path, every ParsedFile a store_file has committed for it
    ever,     \* the paths a store_file has ever committed
    writers,  \* per connection, the store_file call it is executing
    lock,     \* the connection that holds the write lock of the store
    file_content,  \* the text of the file the Parser is given
    pret      \* the last call on the Parser and what it returned

dbvars == <<files, metadata, wikilinks, labels>>
wvars == <<writers, lock>>
pvars == <<file_content, pret>>
ivars == <<files, metadata, wikilinks, labels, ret, latest, reader, hist, ever,
           writers, lock>>
vars == <<files, metadata, wikilinks, labels, ret, latest, reader, hist, ever,
          writers, lock, file_content, pret>>

----------------------------------------------------------------------------
(* Bounds *)

\* store_file is not taken once the files row it would insert exceeds this id
MaxFileId == 2

\* The longest text, in pieces, of the texts put together from Pieces
MaxPieces == 3

\* The most members an object on the standard output of the tool has
MaxMembers == 2

\* The number of metadata rows a database holds when it is opened
MaxRows == 2

----------------------------------------------------------------------------
(* Values *)

\* Option::None, and SQL NULL in a nullable column
None == [is_some |-> FALSE]

\* Option::Some(v), and a non-NULL value of a nullable column
Some(v) == [is_some |-> TRUE, val |-> v]

Ok(v) == [ok |-> TRUE, val |-> v]

Err(e) == [ok |-> FALSE, err |-> e]

\* A path: the directories leading to the file, the file name's stem ("" when
\* the last component has none, as in "..") and extension, and whether the
\* whole path is valid UTF-8.
MkPath(comps, stem, ext, utf8) ==
    [comps |-> comps, stem |-> stem, ext |-> ext, utf8 |-> utf8]

\* Index.root
Root == <<"ws">>

PathA == MkPath(<<"ws">>, "a", "typ", TRUE)
PathB == MkPath(<<"ws", "sub">>, "b", "md", TRUE)
PathOutside == MkPath(<<"other">>, "a", "md", TRUE)
PathNonUtf8 == MkPath(<<"ws">>, "c", "typ", FALSE)

Paths == {PathA, PathB, PathOutside, PathNonUtf8}

\* "ws/.." and the empty path: Path::file_stem gives None for both
PathParent == MkPath(<<"ws">>, "", "", TRUE)
PathEmpty == MkPath(<<>>, "", "", TRUE)

\* The paths get_backward_links is asked about
TargetPaths == Paths \cup {PathParent, PathEmpty}

\* serde_json::Value: String, Number, Array, Object, Bool and Null
JStr(s) == [t |-> "str", s |-> s]
JNum(n) == [t |-> "num", n |-> n]
JArr(elements) == [t |-> "arr", elements |-> elements]
JObj(members) == [t |-> "obj", members |-> members]
JBool(b) == [t |-> "bool", b |-> b]
JNull == [t |-> "null"]

Digits == <<"0", "1", "2", "3", "4", "5", "6", "7", "8", "9">>

\* 0-9
DigitChars == {Digits[k] : k \in 1..Len(Digits)}

Quote == "\""

MkWikilink(target, alias, label, line, column) ==
    [target |-> target, alias |-> alias, label |-> label,
     line |-> line, column |-> column]

\* Label as the label parser builds it (labels.rs)
MkLabel(name, line, column, is_implicit) ==
    [name |-> name, line |-> line, column |-> column, is_implicit |-> is_implicit]

MkMetadata(title, tags, alias, custom) ==
    [title |-> title, tags |-> tags, alias |-> alias, custom |-> custom]

MetadataDefault == MkMetadata(None, <<>>, <<>>, <<>>)

MkParsedFile(md, wl, lb) == [metadata |-> md, wikilinks |-> wl, labels |-> lb]

----------------------------------------------------------------------------
(* Paths *)

IsPrefix(pre, seq) ==
    /\ Len(pre) <= Len(seq)
    /\ SubSeq(seq, 1, Len(pre)) = pre

\* Index::get_relative_path: Path::strip_prefix(root), or the error
\* "File .. is not in workspace"
get_relative_path(file_path) ==
    IF IsPrefix(Root, file_path.comps)
    THEN Ok([file_path EXCEPT
                !.comps = SubSeq(file_path.comps, Len(Root) + 1, Len(file_path.comps))])
    ELSE Err("not in workspace")

\* self.root.join(relative_path)
RootJoin(relative_path) == [relative_path EXCEPT !.comps = Root \o relative_path.comps]

\* file_stem as it would be if a missing stem were taken for the empty name
file_stem_or_default(path) == Some(path.stem)

\* Path::file_stem().and_then(|s| s.to_str())
file_stem(path) == IF path.utf8 /\ path.stem # "" THEN Some(path.stem) ELSE None

\* Path::to_str()
to_str(path) == IF path.utf8 THEN Some(path) ELSE None

----------------------------------------------------------------------------
(* Text: a str is the sequence of its chars, each a one-character string.  *)
(* The regex crate reports a match by byte offsets into the UTF-8 text.    *)

\* char::len_utf8 for the chars of the texts considered here
len_utf8(c) == IF c = "é" THEN 2 ELSE 1

\* The byte offset at which the i-th char of the text starts, the length of
\* the text in bytes for i = Len(text) + 1
RECURSIVE ByteOffset(_, _)
ByteOffset(text, i) ==
    IF i <= 1 THEN 0 ELSE ByteOffset(text, i - 1) + len_utf8(text[i - 1])

\* CharsCount as it would be if every char of the line took one byte
CharsCountAsBytes(line, start) == start

\* line[..start].chars().count(): the chars encoded within the first start
\* bytes of the line
CharsCount(line, start) ==
    Cardinality({j \in 1..Len(line) : ByteOffset(line, j + 1) <= start})

\* The position of the first line break at or after i, Len(text) + 1 if none
RECURSIVE LineEnd(_, _)
LineEnd(text, i) ==
    IF i > Len(text) \/ text[i] = "\n" THEN i ELSE LineEnd(text, i + 1)

\* str::lines from the i-th char on: the lines without their terminators; a
\* line break at the very end of the text starts no further line
RECURSIVE LinesFrom(_, _)
LinesFrom(text, i) ==
    IF i > Len(text) THEN <<>>
    ELSE <<SubSeq(text, i, LineEnd(text, i) - 1)>> \o LinesFrom(text, LineEnd(text, i) + 1)

\* The lines with the empty ones left out
LinesNotEmpty(content) ==
    LET NotEmpty(l) == l # <<>> IN SelectSeq(LinesFrom(content, 1), NotEmpty)

lines(content) == LinesFrom(content, 1)

\* The end of the longest run, starting at p, of chars outside the set; p - 1
\* when the char at p is in the set
RECURSIVE RunEndExcluding(_, _, _)
RunEndExcluding(line, p, excluded) ==
    IF p <= Len(line) /\ line[p] \notin excluded
    THEN RunEndExcluding(line, p + 1, excluded) ELSE p - 1

\* The end of the longest run, starting at p, of chars of the set
RECURSIVE RunEndWithin(_, _, _)
RunEndWithin(line, p, allowed) ==
    IF p <= Len(line) /\ line[p] \in allowed
    THEN RunEndWithin(line, p + 1, allowed) ELSE p - 1

\* Whether the chars of lit stand in the line from position p on
Lit(line, p, lit) ==
    /\ p + Len(lit) - 1 <= Len(line)
    /\ \A k \in 1..Len(lit) : line[p + k - 1] = lit[k]

\* A capture group: the positions of its first and last char
Group(from, to) == [from |-> from, to |-> to]

\* Match::as_str
as_str(line, group) == SubSeq(line, group.from, group.to)

----------------------------------------------------------------------------
(* JSON text of custom metadata values *)

IsDigit(c) == \E i \in 1..Len(Digits) : Digits[i] = c

DigitValue(c) == (CHOOSE i \in 1..Len(Digits) : Digits[i] = c) - 1

\* serde_json::Value::to_string
to_string(value) ==
    IF value.t = "str" THEN <<Quote>> \o value.s \o <<Quote>>
    ELSE <<Digits[value.n + 1]>>

\* HashMap::insert
MapInsert(map, key, value) ==
    [k \in (DOMAIN map) \cup {key} |-> IF k = key THEN value ELSE map[k]]

\* The chars serde_json skips between the tokens of a JSON text
JsonWhiteSpace == {" ", "\n", "\t", "\r"}

\* The position of the first char at or after i that is not white space
SkipWhiteSpace(text, i) == RunEndWithin(text, i, JsonWhiteSpace) + 1

\* A value read from the text, and the position behind it
Parsed(value, next) == [ok |-> TRUE, val |-> value, next |-> next]

\* The decimal value of the digits from..to
RECURSIVE NumberValue(_, _, _)
NumberValue(text, from, to) ==
    IF to < from THEN 0
    ELSE NumberValue(text, from, to - 1) * 10 + DigitValue(text[to])

\* A string at i, which holds the opening quote: the chars up to the next
\* quote.  A control char inside a string is an error; the texts considered
\* here have no escape sequences.
ParseString(text, i) ==
    LET close == RunEndExcluding(text, i + 1, {Quote}) + 1
    IN  IF close > Len(text) THEN Err("EOF while parsing a string")
        ELSE IF \E k \in (i + 1)..(close - 1) : text[k] \in {"\n", "\t", "\r"}
        THEN Err("control character while parsing a string")
        ELSE Parsed(JStr(SubSeq(text, i + 1, close - 1)), close + 1)

\* A number at i, which holds a digit: 0, or a run of digits that does not
\* start with 0.  The texts considered here have no sign, fraction or exponent.
ParseNumber(text, i) ==
    IF text[i] = "0" THEN Parsed(JNum(0), i + 1)
    ELSE Parsed(JNum(NumberValue(text, i, RunEndWithin(text, i, DigitChars))),
                RunEndWithin(text, i, DigitChars) + 1)

RECURSIVE ParseValue(_, _)
RECURSIVE ParseElements(_, _, _)
RECURSIVE ParseMembers(_, _, _)

\* The value that starts at the first char at or after i that is not white
\* space
ParseValue(text, i) ==
    LET p == SkipWhiteSpace(text, i)
    IN  IF p > Len(text) THEN Err("EOF while parsing a value")
        ELSE IF text[p] = Quote THEN ParseString(text, p)
        ELSE IF IsDigit(text[p]) THEN ParseNumber(text, p)
        ELSE IF text[p] = "[" THEN
            IF Lit(text, SkipWhiteSpace(text, p + 1), <<"]">>)
            THEN Parsed(JArr(<<>>), SkipWhiteSpace(text, p + 1) + 1)
            ELSE ParseElements(text, p + 1, <<>>)
        ELSE IF text[p] = "{" THEN
            IF Lit(text, SkipWhiteSpace(text, p + 1), <<"}">>)
            THEN Parsed(JObj(<<>>), SkipWhiteSpace(text, p + 1) + 1)
            ELSE ParseMembers(text, p + 1, <<>>)
        ELSE IF Lit(text, p, <<"n", "u", "l", "l">>) THEN Parsed(JNull, p + 4)
        ELSE IF Lit(text, p, <<"t", "r", "u", "e">>) THEN Parsed(JBool(TRUE), p + 4)
        ELSE IF Lit(text, p, <<"f", "a", "l", "s", "e">>) THEN Parsed(JBool(FALSE), p + 5)
        ELSE Err("expected value")

\* The elements of an array from i on, acc being those read so far: a value,
\* then a comma and more elements or the closing bracket
ParseElements(text, i, acc) ==
    LET element == ParseValue(text, i)
        p == SkipWhiteSpace(text, element.next)
    IN  IF ~element.ok THEN element
        ELSE IF Lit(text, p, <<",">>)
        THEN ParseElements(text, p + 1, Append(acc, element.val))
        ELSE IF Lit(text, p, <<"]">>)
        THEN Parsed(JArr(Append(acc, element.val)), p + 1)
        ELSE Err("expected comma or bracket")

\* The members of an object from i on, acc being the map read so far: a
\* string, a colon and a value, then a comma and more members or the closing
\* brace.  A key that occurs again replaces the member read before.
ParseMembers(text, i, acc) ==
    LET k == SkipWhiteSpace(text, i)
        key == ParseString(text, k)
        colon == SkipWhiteSpace(text, key.next)
        value == ParseValue(text, colon + 1)
        p == SkipWhiteSpace(text, value.next)
    IN  IF ~Lit(text, k, <<Quote>>) THEN Err("key must be a string")
        ELSE IF ~key.ok THEN key
        ELSE IF ~Lit(text, colon, <<":">>) THEN Err("expected colon")
        ELSE IF ~value.ok THEN value
        ELSE IF Lit(text, p, <<",">>)
        THEN ParseMembers(text, p + 1, MapInsert(acc, key.val.s, value.val))
        ELSE IF Lit(text, p, <<"}">>)
        THEN Parsed(JObj(MapInsert(acc, key.val.s, value.val)), p + 1)
        ELSE Err("expected comma or brace")

\* serde_json::from_str: one value, with nothing but white space behind it
from_str(text) ==
    LET value == ParseValue(text, 1)
    IN  IF ~value.ok THEN Err("invalid JSON")
        ELSE IF SkipWhiteSpace(text, value.next) <= Len(text)
        THEN Err("invalid JSON")
        ELSE Ok(value.val)

\* The orders in which a HashMap with the key set S may be iterated
RECURSIVE Orders(_)
Orders(S) ==
    IF S = {} THEN {<<>>}
    ELSE UNION {{<<k>> \o o : o \in Orders(S \ {k})} : k \in S}

----------------------------------------------------------------------------
(* The database: one record per connection-visible state *)

Database(f, m, w, l) == [files |-> f, metadata |-> m, wikilinks |-> w, labels |-> l]

\* The tables right after initialize_tables on a fresh store
EmptyDatabase == Database({}, <<>>, <<>>, <<>>)

\* The store before the first Index::new: a database file without tables
NoTables == [t \in {} |-> <<>>]

\* initialize_tables as it would be if it created the tables anew
initialize_tables_anew(d) == EmptyDatabase

\* CREATE TABLE IF NOT EXISTS: a table that exists is left as it is
CreateTableIfNotExists(d, table) ==
    IF table \in DOMAIN d THEN d
    ELSE [t \in DOMAIN d \cup {table} |->
            IF t = table THEN EmptyDatabase[table] ELSE d[t]]

\* Index::initialize_tables (the indexes it creates hold no rows of their own)
initialize_tables(d) ==
    CreateTableIfNotExists(
        CreateTableIfNotExists(
            CreateTableIfNotExists(
                CreateTableIfNotExists(d, "files"), "metadata"), "wikilinks"), "labels")

MaxOf(S) == CHOOSE x \in S : \A y \in S : y <= x

\* SQLite's rowid for a new row of an INTEGER PRIMARY KEY table: one above
\* the largest rowid in the table, 1 in an empty table
NewRowid(rows) == IF rows = {} THEN 1 ELSE MaxOf({r.id : r \in rows}) + 1

\* InsertOrReplaceFile as it would be if the statement were a plain INSERT on
\* a table without UNIQUE(path)
InsertFileKeepsOldRow(f, path) == f \cup {[id |-> NewRowid(f), path |-> path]}

\* INSERT OR REPLACE INTO files (path, ..): the rowid is chosen while the row
\* that holds the path is still in the table; that row is then deleted (the
\* REPLACE resolution of UNIQUE(path)) and the new row is inserted.
InsertOrReplaceFile(f, path) ==
    {r \in f : r.path # path} \cup {[id |-> NewRowid(f), path |-> path]}

\* DeleteByFileId as it would be if the DELETE matched no row
DeleteByFileIdKeepsRows(rows, file_id) == rows

\* DeleteByFileId as it would be if the DELETE stopped at the first row it
\* matched (LIMIT 1)
DeleteFirstByFileId(rows, file_id) ==
    LET hits == {i \in 1..Len(rows) : rows[i].file_id = file_id}
        first == CHOOSE i \in hits : \A j \in hits : i <= j
    IN  IF hits = {} THEN rows
        ELSE SubSeq(rows, 1, first - 1) \o SubSeq(rows, first + 1, Len(rows))

\* DeleteByFileId as it would be without its WHERE clause
DeleteEveryRow(rows, file_id) == <<>>

\* DELETE FROM <table> WHERE file_id = ?
DeleteByFileId(rows, file_id) == SelectSeq(rows, LAMBDA r : r.file_id # file_id)

\* SELECT .. FROM <table> WHERE file_id = ?
SelectByFileId(rows, file_id) == SelectSeq(rows, LAMBDA r : r.file_id = file_id)

\* SELECT id FROM files WHERE path = ?  (query_row(..).optional())
SelectFileId(f, path) ==
    IF \E r \in f : r.path = path
    THEN Some((CHOOSE r \in f : r.path = path).id)
    ELSE None

----------------------------------------------------------------------------
(* store_file: the statements of its transaction *)

\* The rows store_file inserts into metadata (index.rs 146-173): the title,
\* the tags, the aliases, then the custom entries in the map's iteration
\* order, each custom value as its JSON text.
MetadataInserts(md, order) ==
    (IF md.title.is_some THEN <<[key |-> "title", value |-> md.title.val]>> ELSE <<>>)
    \o [i \in 1..Len(md.tags) |-> [key |-> "tags", value |-> md.tags[i]]]
    \o [i \in 1..Len(md.alias) |-> [key |-> "alias", value |-> md.alias[i]]]
    \o [i \in 1..Len(order) |->
            [key |-> order[i], value |-> to_string(md.custom[order[i]])]]

\* One INSERT INTO <table> per element of rows
InsertStatements(table, rows) ==
    [i \in 1..Len(rows) |-> [kind |-> "insert", table |-> table, row |-> rows[i]]]

\* The statements store_file executes between conn.transaction() and
\* tx.commit(), in order; `order` is the iteration order of metadata.custom.
StoreStatements(parsed, order) ==
    <<[kind |-> "upsert_file"],
      [kind |-> "delete", table |-> "metadata"],
      [kind |-> "delete", table |-> "wikilinks"],
      [kind |-> "delete", table |-> "labels"]>>
    \o InsertStatements("metadata", MetadataInserts(parsed.metadata, order))
    \o InsertStatements("wikilinks", parsed.wikilinks)
    \o InsertStatements("labels", parsed.labels)

\* INSERT INTO metadata (file_id, key, value)
MetadataRow(file_id, row) == [file_id |-> file_id, key |-> row.key, value |-> row.value]

\* INSERT INTO wikilinks (file_id, target, alias, label, line, column)
WikilinkRow(file_id, w) ==
    [file_id |-> file_id, target |-> w.target, alias |-> w.alias, label |-> w.label,
     line |-> w.line, column |-> w.column]

\* INSERT INTO labels (file_id, name, line, column): is_implicit is not among
\* the columns, so the row holds NULL there
LabelRow(file_id, l) ==
    [file_id |-> file_id, name |-> l.name, line |-> l.line, column |-> l.column,
     is_implicit |-> None]

\* One tx.execute: t is the transaction's view [db, file_id], file_id being
\* tx.last_insert_rowid() once the files row is written
Execute(t, path, stmt) ==
    IF stmt.kind = "upsert_file"
    THEN [db |-> [t.db EXCEPT !.files = InsertOrReplaceFile(@, path)],
          file_id |-> NewRowid(t.db.files)]
    ELSE IF stmt.kind = "delete"
    THEN [t EXCEPT !.db[stmt.table] = DeleteByFileId(@, t.file_id)]
    ELSE IF stmt.table = "metadata"
    THEN [t EXCEPT !.db.metadata = Append(@, MetadataRow(t.file_id, stmt.row))]
    ELSE IF stmt.table = "wikilinks"
    THEN [t EXCEPT !.db.wikilinks = Append(@, WikilinkRow(t.file_id, stmt.row))]
    ELSE [t EXCEPT !.db.labels = Append(@, LabelRow(t.file_id, stmt.row))]

\* The first n statements of stmts executed on t
RECURSIVE ExecuteAll(_, _, _, _)
ExecuteAll(t, path, stmts, n) ==
    IF n = 0 THEN t
    ELSE Execute(ExecuteAll(t, path, stmts, n - 1), path, stmts[n])

\* TxOutcome as it would be if the statements ran outside a transaction
TxOutcomeWithoutRollback(before, work, committed) == work

\* What the connection holds once the Transaction value is gone: the work of
\* the transaction after tx.commit(), the state before it when the
\* Transaction is dropped by an early return (rusqlite rolls back on drop)
TxOutcome(before, work, committed) == IF committed THEN work ELSE before

\* Index::store_file on the database d.  fail_at = -1: std::fs::metadata does
\* not find the file; fail_at = 0: every statement succeeds; fail_at = k: the
\* k-th statement of the transaction returns an error (COMMIT being the one
\* after the last of StoreStatements).
store_file(d, file_path, parsed, order, fail_at) ==
    LET rel == get_relative_path(file_path)
        stmts == StoreStatements(parsed, order)
        done == IF fail_at = 0 THEN Len(stmts)
                ELSE IF fail_at = -1 THEN 0 ELSE fail_at - 1
        work == ExecuteAll([db |-> d, file_id |-> 0], rel.val, stmts, done).db
    IN  IF ~rel.ok THEN [res |-> rel, db |-> d]
        ELSE IF fail_at = -1 THEN [res |-> Err("io"), db |-> d]
        ELSE IF ~to_str(rel.val).is_some
        THEN [res |-> Err("Invalid UTF-8 in path"), db |-> TxOutcome(d, d, FALSE)]
        ELSE IF fail_at # 0
        THEN [res |-> Err("sqlite"), db |-> TxOutcome(d, work, FALSE)]
        ELSE [res |-> Ok("unit"), db |-> TxOutcome(d, work, TRUE)]

\* remove_file as it would be if the DELETE compared the stored paths with the
\* absolute path it was given
remove_file_by_absolute_path(d, file_path) ==
    LET rel == get_relative_path(file_path)
    IN  IF ~rel.ok THEN [res |-> rel, db |-> d]
        ELSE IF ~to_str(rel.val).is_some
        THEN [res |-> Err("Invalid UTF-8 in path"), db |-> d]
        ELSE [res |-> Ok("unit"),
              db |-> [d EXCEPT !.files = {r \in @ : r.path # file_path}]]

\* remove_file as it would be if the DELETE matched no row
remove_file_deletes_nothing(d, file_path) ==
    LET rel == get_relative_path(file_path)
    IN  IF ~rel.ok THEN [res |-> rel, db |-> d]
        ELSE IF ~to_str(rel.val).is_some
        THEN [res |-> Err("Invalid UTF-8 in path"), db |-> d]
        ELSE [res |-> Ok("unit"), db |-> d]

\* remove_file as it would be if it reported a DELETE that matched no row
remove_file_requires_row(d, file_path) ==
    LET rel == get_relative_path(file_path)
    IN  IF ~rel.ok THEN [res |-> rel, db |-> d]
        ELSE IF ~to_str(rel.val).is_some
        THEN [res |-> Err("Invalid UTF-8 in path"), db |-> d]
        ELSE IF \A r \in d.files : r.path # rel.val
        THEN [res |-> Err("QueryReturnedNoRows"), db |-> d]
        ELSE [res |-> Ok("unit"),
              db |-> [d EXCEPT !.files = {r \in @ : r.path # rel.val}]]

\* remove_file as it would be if the rows of the file went with its files row
\* (ON DELETE CASCADE)
remove_file_cascading(d, file_path) ==
    LET rel == get_relative_path(file_path)
        file_id == SelectFileId(d.files, rel.val)
    IN  IF ~rel.ok THEN [res |-> rel, db |-> d]
        ELSE IF ~to_str(rel.val).is_some
        THEN [res |-> Err("Invalid UTF-8 in path"), db |-> d]
        ELSE IF ~file_id.is_some THEN [res |-> Ok("unit"), db |-> d]
        ELSE [res |-> Ok("unit"),
              db |-> Database({r \in d.files : r.path # rel.val},
                              DeleteByFileId(d.metadata, file_id.val),
                              DeleteByFileId(d.wikilinks, file_id.val),
                              DeleteByFileId(d.labels, file_id.val))]

\* Index::remove_file: DELETE FROM files WHERE path = ?
remove_file(d, file_path) ==
    LET rel == get_relative_path(file_path)
    IN  IF ~rel.ok THEN [res |-> rel, db |-> d]
        ELSE IF ~to_str(rel.val).is_some
        THEN [res |-> Err("Invalid UTF-8 in path"), db |-> d]
        ELSE [res |-> Ok("unit"),
              db |-> [d EXCEPT !.files = {r \in @ : r.path # rel.val}]]

----------------------------------------------------------------------------
(* Queries *)

\* The step of the loop as it would be without the arms for the three keys
FoldMetadataRowAllCustom(md, row) ==
    IF from_str(row.value).ok
    THEN [md EXCEPT !.custom = MapInsert(@, row.key, from_str(row.value).val)]
    ELSE md

\* One step of the loop of get_file over the metadata rows (index.rs 230-242)
FoldMetadataRow(md, row) ==
    IF row.key = "title" THEN [md EXCEPT !.title = Some(row.value)]
    ELSE IF row.key = "tags" THEN [md EXCEPT !.tags = Append(@, row.value)]
    ELSE IF row.key = "alias" THEN [md EXCEPT !.alias = Append(@, row.value)]
    ELSE IF from_str(row.value).ok
    THEN [md EXCEPT !.custom = MapInsert(@, row.key, from_str(row.value).val)]
    ELSE md

RECURSIVE FoldMetadata(_, _)
FoldMetadata(rows, n) ==
    IF n = 0 THEN MetadataDefault
    ELSE FoldMetadataRow(FoldMetadata(rows, n - 1), rows[n])

FoldAllMetadata(rows) == FoldMetadata(rows, Len(rows))

\* SELECT key, value FROM metadata WHERE file_id = ?, folded into a Metadata
QueryMetadata(d, file_id) == FoldAllMetadata(SelectByFileId(d.metadata, file_id))

\* The Wikilink built from a wikilinks row
ReadWikilink(row) == MkWikilink(row.target, row.alias, row.label, row.line, row.column)

\* The Label built from a labels row (index.rs 269-273; models.rs Label)
ReadLabel(row) == [name |-> row.name, line |-> row.line, column |-> row.column]

\* The loop that pushes one Wikilink per row
ReadWikilinks(rows) == [i \in 1..Len(rows) |-> ReadWikilink(rows[i])]

\* The loop that pushes one Label per row
ReadLabels(rows) == [i \in 1..Len(rows) |-> ReadLabel(rows[i])]

\* SELECT target, alias, label, line, column FROM wikilinks WHERE file_id = ?
QueryWikilinks(d, file_id) == ReadWikilinks(SelectByFileId(d.wikilinks, file_id))

\* SELECT name, line, column FROM labels WHERE file_id = ?
QueryLabels(d, file_id) == ReadLabels(SelectByFileId(d.labels, file_id))

\* get_file as it would be without .optional() on the id lookup: no row is
\* the error QueryReturnedNoRows
get_file_without_optional(d, file_path) ==
    LET rel == get_relative_path(file_path)
        file_id == SelectFileId(d.files, rel.val)
    IN  IF ~rel.ok THEN rel
        ELSE IF ~to_str(rel.val).is_some THEN Err("Invalid UTF-8 in path")
        ELSE IF ~file_id.is_some THEN Err("QueryReturnedNoRows")
        ELSE Ok(Some([path |-> file_path,
                      metadata |-> QueryMetadata(d, file_id.val),
                      wikilinks |-> QueryWikilinks(d, file_id.val),
                      labels |-> QueryLabels(d, file_id.val)]))

\* Index::get_file
get_file(d, file_path) ==
    LET rel == get_relative_path(file_path)
        file_id == SelectFileId(d.files, rel.val)
    IN  IF ~rel.ok THEN rel
        ELSE IF ~to_str(rel.val).is_some THEN Err("Invalid UTF-8 in path")
        ELSE IF ~file_id.is_some THEN Ok(None)
        ELSE Ok(Some([path |-> file_path,
                      metadata |-> QueryMetadata(d, file_id.val),
                      wikilinks |-> QueryWikilinks(d, file_id.val),
                      labels |-> QueryLabels(d, file_id.val)]))

\* Index::get_forward_links
get_forward_links(d, file_path) ==
    LET rel == get_relative_path(file_path)
        file_id == SelectFileId(d.files, rel.val)
    IN  IF ~rel.ok THEN rel
        ELSE IF ~to_str(rel.val).is_some THEN Err("Invalid UTF-8 in path")
        ELSE IF ~file_id.is_some THEN Ok(<<>>)
        ELSE Ok(QueryWikilinks(d, file_id.val))

\* JoinWikilinksFiles as it would be without its WHERE clause
JoinWikilinksFilesAnyTarget(d, target) ==
    SelectSeq(d.wikilinks, LAMBDA w : \E f \in d.files : f.id = w.file_id)

\* SELECT f.path, w.* FROM wikilinks w JOIN files f ON w.file_id = f.id
\* WHERE w.target = ?  (the rows come in rowid order: the statement has no
\* ORDER BY and walks idx_wikilinks_target)
JoinWikilinksFiles(d, target) ==
    SelectSeq(d.wikilinks,
              LAMBDA w : w.target = target /\ \E f \in d.files : f.id = w.file_id)

\* The closure of query_map and the loop over its rows (index.rs 301-317)
ReadBacklinks(d, rows) ==
    [i \in 1..Len(rows) |->
        <<RootJoin((CHOOSE f \in d.files : f.id = rows[i].file_id).path),
          ReadWikilink(rows[i])>>]

\* get_backward_links as it would be if it took the target for a file of the
\* workspace, as get_forward_links does
get_backward_links_in_workspace(d, target_file) ==
    LET target_name == file_stem(target_file)
    IN  IF ~get_relative_path(target_file).ok THEN get_relative_path(target_file)
        ELSE IF ~target_name.is_some THEN Err("Invalid file name")
        ELSE Ok(ReadBacklinks(d, JoinWikilinksFiles(d, target_name.val)))

\* Index::get_backward_links
get_backward_links(d, target_file) ==
    LET target_name == file_stem(target_file)
    IN  IF ~target_name.is_some THEN Err("Invalid file name")
        ELSE Ok(ReadBacklinks(d, JoinWikilinksFiles(d, target_name.val)))

\* The names of the model in the order of SQLite's BINARY collation
Collation == <<"a", "alias", "b", "c", "k", "sub", "tags", "title">>

Rank(name) == CHOOSE i \in 1..Len(Collation) : Collation[i] = name

\* a < b for sequences of names, lexicographically
RECURSIVE SeqLess(_, _)
SeqLess(a, b) ==
    IF b = <<>> THEN FALSE
    ELSE IF a = <<>> THEN TRUE
    ELSE IF Rank(Head(a)) # Rank(Head(b)) THEN Rank(Head(a)) < Rank(Head(b))
    ELSE SeqLess(Tail(a), Tail(b))

\* The sort key of ORDER BY f.path, m.key
SortKey(row) == row.path.comps \o <<row.path.stem, row.key>>

\* rows with row put after the last one that does not sort after it
RECURSIVE InsertSorted(_, _)
InsertSorted(rows, row) ==
    IF rows = <<>> THEN <<row>>
    ELSE IF SeqLess(SortKey(row), SortKey(rows[Len(rows)]))
    THEN Append(InsertSorted(SubSeq(rows, 1, Len(rows) - 1), row), rows[Len(rows)])
    ELSE Append(rows, row)

RECURSIVE SortRows(_, _)
SortRows(rows, n) ==
    IF n = 0 THEN <<>> ELSE InsertSorted(SortRows(rows, n - 1), rows[n])

\* The columns f.path, m.key, m.value of the joined rows
MetadataColumns(d, rows) ==
    [i \in 1..Len(rows) |->
        [path |-> (CHOOSE f \in d.files : f.id = rows[i].file_id).path,
         key |-> rows[i].key, value |-> rows[i].value]]

\* SELECT f.path, m.key, m.value FROM metadata m JOIN files f
\* ON m.file_id = f.id
JoinMetadataFiles(d) ==
    MetadataColumns(d, SelectSeq(d.metadata,
                                 LAMBDA m : \E f \in d.files : f.id = m.file_id))

\* SortAllRows as it would be if the statement had no ORDER BY
SortNoRows(rows) == rows

SortAllRows(rows) == SortRows(rows, Len(rows))

\* Index::get_all_metadata (rows equal in path and key are kept in rowid order)
get_all_metadata(d) == Ok(SortAllRows(JoinMetadataFiles(d)))

----------------------------------------------------------------------------
(* Inputs *)

ParsedLinks ==
    MkParsedFile(MkMetadata(Some(<<"T">>), <<>>, <<>>, <<>>),
                 <<MkWikilink("b", None, None, 1, 1),
                   MkWikilink("a", Some("x"), Some("s"), 2, 3)>>,
                 <<MkLabel("intro", 1, 1, TRUE)>>)

ParsedMeta ==
    MkParsedFile(MkMetadata(None, <<<<"t">>, <<"t">>>>, <<<<"n">>>>,
                            "k" :> JStr(<<"v">>)),
                 <<MkWikilink("a", None, None, 1, 1)>>,
                 <<MkLabel("lab", 4, 5, FALSE)>>)

ParsedReserved ==
    MkParsedFile(MkMetadata(None, <<>>, <<>>,
                            "title" :> JNum(7)),
                 <<>>, <<>>)

ParsedFiles == {ParsedLinks, ParsedMeta, ParsedReserved}

----------------------------------------------------------------------------
(* WikilinkParser (wikilinks.rs)                                           *)
(* \[\[([^|\]:\n]+)(?::([^|\]\n]+))?(?:\|([^|\]\n]+))?\]\]                 *)
(* A repetition is greedy and gives chars back when the rest of the        *)
(* pattern fails; an optional group is tried before it is skipped.         *)

\* The chars that [^|\]:\n] excludes
TargetExcluded == {"|", "]", ":", "\n"}

\* The chars that [^|\]\n] excludes
LabelExcluded == {"|", "]", "\n"}

\* MatchClose as it would be if the pattern ended in one \]
MatchCloseOneBracket(line, p, rest) ==
    IF Lit(line, p, <<"]">>) THEN Some([rest EXCEPT !.to = p]) ELSE None

\* \]\] at p: the end of the whole match
MatchClose(line, p, rest) ==
    IF Lit(line, p, <<"]", "]">>) THEN Some([rest EXCEPT !.to = p + 1]) ELSE None

\* (?:\|([^|\]\n]+))? at p, then the rest of the pattern
MatchAlias(line, p, rest) ==
    LET ends == {e \in (p + 1)..RunEndExcluding(line, p + 1, LabelExcluded) :
                    MatchClose(line, e + 1, rest).is_some}
    IN  IF Lit(line, p, <<"|">>) /\ ends # {}
        THEN MatchClose(line, MaxOf(ends) + 1,
                        [rest EXCEPT !.alias = Some(Group(p + 1, MaxOf(ends)))])
        ELSE MatchClose(line, p, rest)

\* MatchLabel as it would be if the pattern had no label group
MatchLabelSkipped(line, p, rest) == MatchAlias(line, p, rest)

\* (?::([^|\]\n]+))? at p, then the rest of the pattern
MatchLabel(line, p, rest) ==
    LET ends == {e \in (p + 1)..RunEndExcluding(line, p + 1, LabelExcluded) :
                    MatchAlias(line, e + 1, rest).is_some}
    IN  IF Lit(line, p, <<":">>) /\ ends # {}
        THEN MatchAlias(line, MaxOf(ends) + 1,
                        [rest EXCEPT !.label = Some(Group(p + 1, MaxOf(ends)))])
        ELSE MatchAlias(line, p, rest)

\* The match of the pattern that starts at position i, if there is one:
\* cap.get(0) is from..to, cap.get(1) target, cap.get(2) label, cap.get(3) alias
WikilinkMatchAt(line, i) ==
    LET start == [from |-> i, to |-> i, target |-> Group(i, i),
                  label |-> None, alias |-> None]
        ends == {e \in (i + 2)..RunEndExcluding(line, i + 2, TargetExcluded) :
                    MatchLabel(line, e + 1, start).is_some}
    IN  IF Lit(line, i, <<"[", "[">>) /\ ends # {}
        THEN MatchLabel(line, MaxOf(ends) + 1,
                        [start EXCEPT !.target = Group(i + 2, MaxOf(ends))])
        ELSE None

\* captures_iter as it would be if the search went on one char behind the
\* start of a match
RECURSIVE WikilinkCapturesOverlapping(_, _)
WikilinkCapturesOverlapping(line, i) ==
    IF i > Len(line) THEN <<>>
    ELSE IF WikilinkMatchAt(line, i).is_some
    THEN <<WikilinkMatchAt(line, i).val>> \o WikilinkCapturesOverlapping(line, i + 1)
    ELSE WikilinkCapturesOverlapping(line, i + 1)

\* wikilink_regex.captures_iter(line) from position i on: the leftmost
\* match, then the matches of the text behind it
RECURSIVE WikilinkCaptures(_, _)
WikilinkCaptures(line, i) ==
    IF i > Len(line) THEN <<>>
    ELSE IF WikilinkMatchAt(line, i).is_some
    THEN <<WikilinkMatchAt(line, i).val>>
           \o WikilinkCaptures(line, WikilinkMatchAt(line, i).val.to + 1)
    ELSE WikilinkCaptures(line, i + 1)

\* The Wikilink pushed for one match (wikilinks.rs 33-47)
WikilinkOfMatch(line, line_idx, cap) ==
    MkWikilink(as_str(line, cap.target),
               IF cap.alias.is_some THEN Some(as_str(line, cap.alias.val)) ELSE None,
               IF cap.label.is_some THEN Some(as_str(line, cap.label.val)) ELSE None,
               line_idx + 1,
               CharsCount(line, ByteOffset(line, cap.from)) + 1)

\* The Wikilinks of the matches of one line, in the order of the matches
WikilinksOfLine(line, line_idx, caps) ==
    [k \in 1..Len(caps) |-> WikilinkOfMatch(line, line_idx, caps[k])]

\* The loop over the lines from the n-th on (wikilinks.rs 32-49)
RECURSIVE WikilinksOfLines(_, _)
WikilinksOfLines(ls, n) ==
    IF n > Len(ls) THEN <<>>
    ELSE WikilinksOfLine(ls[n], n - 1, WikilinkCaptures(ls[n], 1))
           \o WikilinksOfLines(ls, n + 1)

\* WikilinkParser::parse_wikilinks
parse_wikilinks(content) == WikilinksOfLines(lines(content), 1)

----------------------------------------------------------------------------
(* LabelParser (labels.rs)                                                 *)

\* a-z and A-Z, letter by letter
LowerCase ==
    <<"a", "b", "c", "d", "e", "f", "g", "h", "i", "j", "k", "l", "m", "n",
      "o", "p", "q", "r", "s", "t", "u", "v", "w", "x", "y", "z">>

UpperCase ==
    <<"A", "B", "C", "D", "E", "F", "G", "H", "I", "J", "K", "L", "M", "N",
      "O", "P", "Q", "R", "S", "T", "U", "V", "W", "X", "Y", "Z">>

Letters == {LowerCase[k] : k \in 1..Len(LowerCase)} \cup {UpperCase[k] : k \in 1..Len(UpperCase)}

\* The chars of the class [a-zA-Z0-9_:.-]
LabelNameChars == Letters \cup DigitChars \cup {"_", ":", ".", "-"}

\* The chars \s matches and str::trim removes, of the chars a line can hold
WhiteSpace == {" ", "\t"}

\* char::is_alphanumeric for the chars of the texts considered here
is_alphanumeric(c) == c \in Letters \cup DigitChars \cup {"é"}

\* char::to_lowercase
to_lowercase(c) ==
    IF \E k \in 1..Len(UpperCase) : UpperCase[k] = c
    THEN LowerCase[CHOOSE k \in 1..Len(UpperCase) : UpperCase[k] = c]
    ELSE c

\* <([a-zA-Z0-9_:.-]+)> at position i: cap.get(0) is from..to and cap.get(1)
\* is name
ExplicitLabelMatchAt(line, i) ==
    LET ends == {e \in (i + 1)..RunEndWithin(line, i + 1, LabelNameChars) :
                    Lit(line, e + 1, <<">">>)}
    IN  IF Lit(line, i, <<"<">>) /\ ends # {}
        THEN Some([from |-> i, to |-> MaxOf(ends) + 1,
                   name |-> Group(i + 1, MaxOf(ends))])
        ELSE None

\* captures_iter that gives the first match of the line only
RECURSIVE ExplicitLabelCapturesFirstOnly(_, _)
ExplicitLabelCapturesFirstOnly(line, i) ==
    IF i > Len(line) THEN <<>>
    ELSE IF ExplicitLabelMatchAt(line, i).is_some
    THEN <<ExplicitLabelMatchAt(line, i).val>>
    ELSE ExplicitLabelCapturesFirstOnly(line, i + 1)

\* explicit_label_regex.captures_iter(line) from position i on
RECURSIVE ExplicitLabelCaptures(_, _)
ExplicitLabelCaptures(line, i) ==
    IF i > Len(line) THEN <<>>
    ELSE IF ExplicitLabelMatchAt(line, i).is_some
    THEN <<ExplicitLabelMatchAt(line, i).val>>
           \o ExplicitLabelCaptures(line, ExplicitLabelMatchAt(line, i).val.to + 1)
    ELSE ExplicitLabelCaptures(line, i + 1)

\* The explicit Labels of one line (labels.rs 37-48)
ExplicitLabelsOfLine(line, line_idx, caps) ==
    [k \in 1..Len(caps) |->
        MkLabel(as_str(line, caps[k].name), line_idx + 1,
                CharsCount(line, ByteOffset(line, caps[k].from)) + 1, FALSE)]

\* heading_regex.captures(line), ^(=+)\s+(.+)$: cap.get(2), the chars from
\* behind the white space to the end of the line.  (=+) and \s+ are greedy
\* and give chars back while (.+) has none left to match.
HeadingMatch(line) ==
    LET marks == {e \in 1..RunEndWithin(line, 1, {"="}) :
                    \E s \in (e + 1)..RunEndWithin(line, e + 1, WhiteSpace) :
                        s < Len(line)}
        spaces == {s \in (MaxOf(marks) + 1)..RunEndWithin(line, MaxOf(marks) + 1, WhiteSpace) :
                    s < Len(line)}
    IN  IF marks # {} THEN Some(Group(MaxOf(spaces) + 1, Len(line))) ELSE None

\* str::trim
RECURSIVE trim(_)
trim(text) ==
    IF text = <<>> THEN text
    ELSE IF text[1] \in WhiteSpace THEN trim(Tail(text))
    ELSE IF text[Len(text)] \in WhiteSpace THEN trim(SubSeq(text, 1, Len(text) - 1))
    ELSE text

\* The closure of the map over the chars of the lowercased heading
\* (labels.rs 57-63)
HeadingChar(c) == IF is_alphanumeric(c) \/ c = "-" \/ c = "_" THEN c ELSE "-"

\* A split that leaves the text in one segment
SplitNothing(text, i) == <<SubSeq(text, i, Len(text))>>

\* .split('-').filter(|s| !s.is_empty()): the runs of chars between hyphens
RECURSIVE SplitNonEmpty(_, _)
SplitNonEmpty(text, i) ==
    IF i > Len(text) THEN <<>>
    ELSE IF text[i] = "-" THEN SplitNonEmpty(text, i + 1)
    ELSE <<SubSeq(text, i, RunEndExcluding(text, i, {"-"}))>>
           \o SplitNonEmpty(text, RunEndExcluding(text, i, {"-"}) + 1)

\* .join("-")
RECURSIVE join(_, _)
join(segments, sep) ==
    IF segments = <<>> THEN <<>>
    ELSE IF Len(segments) = 1 THEN segments[1]
    ELSE segments[1] \o sep \o join(Tail(segments), sep)

\* The name of the implicit label of a heading text (labels.rs 54-68)
HeadingLabelName(heading_text) ==
    join(SplitNonEmpty([k \in 1..Len(heading_text) |->
                           HeadingChar(to_lowercase(heading_text[k]))], 1),
         <<"-">>)

\* The implicit Label of a heading without the two checks for emptiness
ImplicitLabelsOfLineUnchecked(line, line_idx) ==
    IF ~HeadingMatch(line).is_some THEN <<>>
    ELSE <<MkLabel(HeadingLabelName(trim(as_str(line, HeadingMatch(line).val))),
                   line_idx + 1, 1, TRUE)>>

\* The implicit Label of one line, if it is a heading (labels.rs 51-77)
ImplicitLabelsOfLine(line, line_idx) ==
    IF ~HeadingMatch(line).is_some THEN <<>>
    ELSE IF trim(as_str(line, HeadingMatch(line).val)) = <<>> THEN <<>>
    ELSE IF HeadingLabelName(trim(as_str(line, HeadingMatch(line).val))) = <<>> THEN <<>>
    ELSE <<MkLabel(HeadingLabelName(trim(as_str(line, HeadingMatch(line).val))),
                   line_idx + 1, 1, TRUE)>>

\* The loop with the heading of a line looked at before its explicit labels
RECURSIVE LabelsOfLinesHeadingFirst(_, _)
LabelsOfLinesHeadingFirst(ls, n) ==
    IF n > Len(ls) THEN <<>>
    ELSE ImplicitLabelsOfLine(ls[n], n - 1)
           \o ExplicitLabelsOfLine(ls[n], n - 1, ExplicitLabelCaptures(ls[n], 1))
           \o LabelsOfLinesHeadingFirst(ls, n + 1)

\* The loop over the lines from the n-th on (labels.rs 35-78)
RECURSIVE LabelsOfLines(_, _)
LabelsOfLines(ls, n) ==
    IF n > Len(ls) THEN <<>>
    ELSE ExplicitLabelsOfLine(ls[n], n - 1, ExplicitLabelCaptures(ls[n], 1))
           \o ImplicitLabelsOfLine(ls[n], n - 1)
           \o LabelsOfLines(ls, n + 1)

\* LabelParser::parse_labels
parse_labels(content) == LabelsOfLines(lines(content), 1)

----------------------------------------------------------------------------
(* Metadata extraction (metadata.rs) and Parser (mod.rs).  What the run of *)
(* the typst command came to is a record: spawn tells whether the process  *)
(* could be started ("ok"), was not found ("not_found") or failed to start *)
(* for another reason ("other"); success is its exit status and stdout the *)
(* bytes it wrote, a byte that belongs to no UTF-8 encoding being          *)
(* InvalidByte.                                                            *)

ToolOutcome(spawn, success, stdout) ==
    [spawn |-> spawn, success |-> success, stdout |-> stdout]

InvalidByte == "0xFF"

\* String::from_utf8_lossy: U+FFFD in the place of what is not UTF-8
from_utf8_lossy(bytes) ==
    [k \in 1..Len(bytes) |-> IF bytes[k] = InvalidByte THEN "�" ELSE bytes[k]]

KeyTitle == <<"t", "i", "t", "l", "e">>
KeyTags == <<"t", "a", "g", "s">>
KeyAlias == <<"a", "l", "i", "a", "s">>

\* val.as_str().map(String::from)
as_str_option(value) == IF value.t = "str" THEN Some(value.s) ELSE None

\* The strings of the elements, the last one first
RECURSIVE FilterStringsReversed(_)
FilterStringsReversed(elements) ==
    IF elements = <<>> THEN <<>>
    ELSE IF elements[1].t = "str"
    THEN FilterStringsReversed(Tail(elements)) \o <<elements[1].s>>
    ELSE FilterStringsReversed(Tail(elements))

\* arr.iter().filter_map(|v| v.as_str().map(String::from)).collect()
RECURSIVE FilterStrings(_)
FilterStrings(elements) ==
    IF elements = <<>> THEN <<>>
    ELSE IF elements[1].t = "str"
    THEN <<elements[1].s>> \o FilterStrings(Tail(elements))
    ELSE FilterStrings(Tail(elements))

\* The arms "tags" and "alias" of parse_metadata_json for the member key of
\* the object, if it has one (metadata.rs 55-70)
StringsOfMember(members, key) ==
    IF key \in DOMAIN members /\ members[key].t = "arr"
    THEN FilterStrings(members[key].elements)
    ELSE <<>>

\* parse_metadata_json: the members of an object are visited once each, so
\* the order of the visit does not show in the result
parse_metadata_json(json_str) ==
    LET value == from_str(json_str)
        members == value.val.members
    IN  IF ~value.ok THEN Err("JsonError")
        ELSE IF value.val.t # "obj" THEN Ok(MetadataDefault)
        ELSE Ok(MkMetadata(
                   IF KeyTitle \in DOMAIN members
                   THEN as_str_option(members[KeyTitle]) ELSE None,
                   StringsOfMember(members, KeyTags),
                   StringsOfMember(members, KeyAlias),
                   [k \in (DOMAIN members) \ {KeyTitle, KeyTags, KeyAlias} |-> members[k]]))

\* extract_metadata as it would be if every failure to start the process were
\* reported as ExecutionError
extract_metadata_one_spawn_error(tool) ==
    IF tool.spawn # "ok" THEN Err("ExecutionError")
    ELSE IF ~tool.success THEN Ok(MetadataDefault)
    ELSE parse_metadata_json(from_utf8_lossy(tool.stdout))

\* extract_metadata
extract_metadata(tool) ==
    IF tool.spawn = "not_found" THEN Err("TypstNotFound")
    ELSE IF tool.spawn # "ok" THEN Err("ExecutionError")
    ELSE IF ~tool.success THEN Ok(MetadataDefault)
    ELSE parse_metadata_json(from_utf8_lossy(tool.stdout))

\* ParseError::MetadataError(e) and ParseError::IoError
MetadataError(e) == [variant |-> "MetadataError", source |-> e]
IoError == [variant |-> "IoError"]

\* Parser::parse_file: file is what tokio::fs::read_to_string returns for the
\* path, tool the outcome of the typst command run for it
parse_file(file, tool) ==
    IF ~file.ok THEN Err(IoError)
    ELSE IF ~extract_metadata(tool).ok
    THEN Err(MetadataError(extract_metadata(tool).err))
    ELSE Ok(MkParsedFile(extract_metadata(tool).val,
                         parse_wikilinks(file.val),
                         parse_labels(file.val)))

\* Parser::parse_content
parse_content(content) ==
    Ok(MkParsedFile(MetadataDefault, parse_wikilinks(content), parse_labels(content)))

----------------------------------------------------------------------------
(* The index as a state machine *)

\* The tables as the connection of the Index sees them
DB == Database(files, metadata, wikilinks, labels)

SetDB(d) ==
    /\ files' = d.files
    /\ metadata' = d.metadata
    /\ wikilinks' = d.wikilinks
    /\ labels' = d.labels

Returned(op, path, res) == [op |-> op, path |-> path, res |-> res]

\* No get_file is in progress on the second connection
ReaderIdle ==
    [pc |-> "idle", path |-> PathA, file_id |-> 0, metadata |-> MetadataDefault,
     wikilinks |-> <<>>, labels |-> <<>>, result |-> Ok(None)]

\* The connections that write to the store, one Index each
Connections == {"c1", "c2"}

\* A connection that is executing no store_file
WriterIdle ==
    [pc |-> "idle", path |-> PathA, parsed |-> MkParsedFile(MetadataDefault, <<>>, <<>>),
     order |-> <<>>, done |-> 0, t |-> [db |-> EmptyDatabase, file_id |-> 0],
     res |-> Ok("unit"), overlap |-> FALSE]

\* No call has been made on the Parser
ParserIdle ==
    [op |-> "new", file_ok |-> TRUE, tool |-> ToolOutcome("ok", TRUE, <<>>),
     res |-> Ok("unit")]

\* Index::new on a fresh root
IndexInit ==
    /\ files = EmptyDatabase.files
    /\ metadata = EmptyDatabase.metadata
    /\ wikilinks = EmptyDatabase.wikilinks
    /\ labels = EmptyDatabase.labels
    /\ ret = Returned("new", PathA, Ok("unit"))
    /\ latest = [p \in Paths |-> None]
    /\ reader = ReaderIdle
    /\ hist = [p \in Paths |-> {}]
    /\ ever = {}
    /\ writers = [c \in Connections |-> WriterIdle]
    /\ lock = "free"

\* Index::new on a fresh root and Parser::new, no file given yet
Init ==
    /\ IndexInit
    /\ file_content = <<>>
    /\ pret = ParserIdle

\* The faults the environment can inject into store_file(p, parsed): none (0),
\* the file missing on disk (-1) when the call gets to std::fs::metadata, and
\* an error of the k-th statement when the call gets to execute statements
FaultPoints(p, parsed, order) ==
    IF ~get_relative_path(p).ok THEN {0}
    ELSE IF ~to_str(p).is_some THEN {-1, 0}
    ELSE -1..(Len(StoreStatements(parsed, order)) + 1)

\* The effect of a store_file call on the tables, ret and latest
StoreFileCall(p, parsed) ==
    /\ NewRowid(files) <= MaxFileId
    /\ \E order \in Orders(DOMAIN parsed.metadata.custom) :
         \E fail_at \in FaultPoints(p, parsed, order) :
            \E out \in {store_file(DB, p, parsed, order, fail_at)} :
                /\ SetDB(out.db)
                /\ ret' = Returned("store_file", p, out.res)
                /\ latest' = IF out.res.ok THEN [latest EXCEPT ![p] = Some(parsed)]
                             ELSE latest
                /\ ever' = IF out.res.ok THEN ever \cup {p} ELSE ever

\* The effect of a remove_file call on the tables, ret and latest
RemoveFileCall(p) ==
    \E out \in {remove_file(DB, p)} :
        /\ SetDB(out.db)
        /\ ret' = Returned("remove_file", p, out.res)
        /\ latest' = IF out.res.ok THEN [latest EXCEPT ![p] = None] ELSE latest
        /\ UNCHANGED ever

StoreFile(p, parsed) ==
    /\ StoreFileCall(p, parsed)
    /\ UNCHANGED <<reader, hist, wvars, pvars>>

RemoveFile(p) ==
    /\ RemoveFileCall(p)
    /\ UNCHANGED <<reader, hist, wvars, pvars>>

GetFile(p) ==
    /\ ret' = Returned("get_file", p, get_file(DB, p))
    /\ UNCHANGED <<dbvars, latest, reader, hist, ever, wvars, pvars>>

GetForwardLinks(p) ==
    /\ ret' = Returned("get_forward_links", p, get_forward_links(DB, p))
    /\ UNCHANGED <<dbvars, latest, reader, hist, ever, wvars, pvars>>

GetBackwardLinks(p) ==
    /\ ret' = Returned("get_backward_links", p, get_backward_links(DB, p))
    /\ UNCHANGED <<dbvars, latest, reader, hist, ever, wvars, pvars>>

GetAllMetadata ==
    /\ ret' = Returned("get_all_metadata", PathA, get_all_metadata(DB))
    /\ UNCHANGED <<dbvars, latest, reader, hist, ever, wvars, pvars>>

\* Index::new on the root again: the store exists and holds the tables
New ==
    /\ SetDB(initialize_tables(DB))
    /\ ret' = Returned("new", PathA, Ok("unit"))
    /\ UNCHANGED <<latest, reader, hist, ever, wvars, pvars>>

\* The calls made on one Index
Next ==
    \/ New
    \/ \E p \in Paths, parsed \in ParsedFiles : StoreFile(p, parsed)
    \/ \E p \in Paths : RemoveFile(p)
    \/ \E p \in Paths : GetFile(p)
    \/ \E p \in Paths : GetForwardLinks(p)
    \/ \E p \in TargetPaths : GetBackwardLinks(p)
    \/ GetAllMetadata

Spec == Init /\ [][Next]_vars

----------------------------------------------------------------------------
(* Two connections to one store: an Index that writes, and a get_file on   *)
(* a second Index over the same root.  Each write commits as a whole; the  *)
(* statements of get_file run in autocommit mode, one read transaction     *)
(* each, so writes of the other connection may commit between them.        *)

\* The paths and contents the two connections work on
ConcPaths == {PathA, PathB}

ConcParsedFiles == {ParsedLinks, ParsedMeta}

\* The writing connection commits a store_file
WriteStore(p, parsed) ==
    /\ StoreFileCall(p, parsed)
    /\ hist' = IF ret'.res.ok THEN [hist EXCEPT ![p] = @ \cup {parsed}] ELSE hist
    /\ UNCHANGED <<reader, wvars, pvars>>

\* The writing connection commits a remove_file
WriteRemove(p) ==
    /\ RemoveFileCall(p)
    /\ UNCHANGED <<reader, hist, wvars, pvars>>

\* get_file up to its first statement, SELECT id FROM files WHERE path = ?
\* (index.rs 205-218)
ReadFileId(p) ==
    /\ reader.pc = "idle"
    /\ LET rel == get_relative_path(p)
           file_id == SelectFileId(files, rel.val)
       IN  reader' =
             IF ~rel.ok THEN [ReaderIdle EXCEPT !.pc = "done", !.path = p, !.result = rel]
             ELSE IF ~to_str(rel.val).is_some
             THEN [ReaderIdle EXCEPT !.pc = "done", !.path = p,
                                     !.result = Err("Invalid UTF-8 in path")]
             ELSE IF ~file_id.is_some
             THEN [ReaderIdle EXCEPT !.pc = "done", !.path = p]
             ELSE [ReaderIdle EXCEPT !.pc = "metadata", !.path = p,
                                     !.file_id = file_id.val]
    /\ UNCHANGED <<dbvars, ret, latest, hist, ever, wvars, pvars>>

\* The second statement of get_file and its loop (index.rs 220-242)
ReadMetadataRows ==
    /\ reader.pc = "metadata"
    /\ reader' = [reader EXCEPT !.pc = "wikilinks",
                                !.metadata = QueryMetadata(DB, reader.file_id)]
    /\ UNCHANGED <<dbvars, ret, latest, hist, ever, wvars, pvars>>

\* The third statement of get_file (index.rs 244-261)
ReadWikilinkRows ==
    /\ reader.pc = "wikilinks"
    /\ reader' = [reader EXCEPT !.pc = "labels",
                                !.wikilinks = QueryWikilinks(DB, reader.file_id)]
    /\ UNCHANGED <<dbvars, ret, latest, hist, ever, wvars, pvars>>

\* The fourth statement of get_file and its return value (index.rs 263-285)
ReadLabelRows ==
    /\ reader.pc = "labels"
    /\ reader' = [reader EXCEPT
                    !.pc = "done",
                    !.labels = QueryLabels(DB, reader.file_id),
                    !.result = Ok(Some([path |-> reader.path,
                                        metadata |-> reader.metadata,
                                        wikilinks |-> reader.wikilinks,
                                        labels |-> QueryLabels(DB, reader.file_id)]))]
    /\ UNCHANGED <<dbvars, ret, latest, hist, ever, wvars, pvars>>

\* The caller takes the result; the connection is free for the next get_file
ReadReturn ==
    /\ reader.pc = "done"
    /\ reader' = ReaderIdle
    /\ UNCHANGED <<dbvars, ret, latest, hist, ever, wvars, pvars>>

NextConc ==
    \/ \E p \in ConcPaths, parsed \in ConcParsedFiles : WriteStore(p, parsed)
    \/ \E p \in ConcPaths : WriteRemove(p)
    \/ \E p \in ConcPaths : ReadFileId(p)
    \/ ReadMetadataRows
    \/ ReadWikilinkRows
    \/ ReadLabelRows
    \/ ReadReturn

SpecConc == Init /\ [][NextConc]_vars

----------------------------------------------------------------------------
(* Two connections that write: each store_file is a transaction of its own *)
(* connection.  conn.transaction() is BEGIN DEFERRED, which takes no lock; *)
(* the first statement, a write, takes the write lock of the store and     *)
(* reads the committed tables; the statements work on the transaction's    *)
(* own pages until COMMIT makes them the tables of the store.              *)

\* writer_lock as it would be if the store let every connection write at once
CanWriteAlways(holder, c) == TRUE

\* SQLite grants the write lock to one connection at a time
CanWrite(holder, c) == holder = "free"

\* The store_file calls in progress, transaction begun or not
Active == {c \in Connections : writers[c].pc \in {"begun", "writing"}}

\* store_file up to conn.transaction() (index.rs 110-118) on a path under the
\* root that exists on disk
WriterBegin(c, p, parsed) ==
    /\ writers[c].pc = "idle"
    /\ NewRowid(files) + Cardinality(Active) <= MaxFileId
    /\ \E order \in Orders(DOMAIN parsed.metadata.custom) :
          writers' = [writers EXCEPT ![c] =
                        [WriterIdle EXCEPT
                           !.pc = "begun", !.path = p, !.parsed = parsed,
                           !.order = order,
                           !.overlap = \E o \in Active : writers[o].path = p]]
    /\ UNCHANGED <<dbvars, ret, latest, reader, hist, ever, lock, pvars>>

\* The INSERT OR REPLACE of the call (index.rs 121-136): the transaction
\* gets the write lock and sees the tables as they are committed
WriterAcquire(c) ==
    /\ writers[c].pc = "begun"
    /\ CanWrite(lock, c)
    /\ lock' = c
    /\ writers' = [writers EXCEPT
                     ![c].pc = "writing",
                     ![c].done = 1,
                     ![c].t = Execute([db |-> DB, file_id |-> 0],
                                      get_relative_path(writers[c].path).val,
                                      StoreStatements(writers[c].parsed,
                                                      writers[c].order)[1])]
    /\ UNCHANGED <<dbvars, ret, latest, reader, hist, ever, pvars>>

\* The write lock is held by the other connection for longer than the busy
\* timeout: the INSERT OR REPLACE returns SQLITE_BUSY, store_file returns the
\* error and the dropped Transaction rolls back
WriterBusy(c) ==
    /\ writers[c].pc = "begun"
    /\ ~CanWrite(lock, c)
    /\ writers' = [writers EXCEPT ![c].pc = "done", ![c].res = Err("sqlite")]
    /\ SetDB(TxOutcome(DB, DB, FALSE))
    /\ UNCHANGED <<ret, latest, reader, hist, ever, lock, pvars>>

\* The next DELETE or INSERT of the call (index.rs 141-198)
WriterExecute(c) ==
    /\ writers[c].pc = "writing"
    /\ writers[c].done < Len(StoreStatements(writers[c].parsed, writers[c].order))
    /\ writers' = [writers EXCEPT
                     ![c].done = @ + 1,
                     ![c].t = Execute(@, get_relative_path(writers[c].path).val,
                                      StoreStatements(writers[c].parsed,
                                                      writers[c].order)[writers[c].done + 1])]
    /\ UNCHANGED <<dbvars, ret, latest, reader, hist, ever, lock, pvars>>

\* A statement of the transaction returns an error: store_file returns it and
\* the dropped Transaction rolls back
WriterFail(c) ==
    /\ writers[c].pc = "writing"
    /\ writers' = [writers EXCEPT ![c].pc = "done", ![c].res = Err("sqlite"),
                                  ![c].done = 0, ![c].t = WriterIdle.t]
    /\ SetDB(TxOutcome(DB, writers[c].t.db, FALSE))
    /\ lock' = "free"
    /\ UNCHANGED <<ret, latest, reader, hist, ever, pvars>>

\* tx.commit() (index.rs 200)
WriterCommit(c) ==
    /\ writers[c].pc = "writing"
    /\ writers[c].done = Len(StoreStatements(writers[c].parsed, writers[c].order))
    /\ writers' = [writers EXCEPT ![c].pc = "done", ![c].res = Ok("unit"),
                                  ![c].done = 0, ![c].t = WriterIdle.t]
    /\ SetDB(TxOutcome(DB, writers[c].t.db, TRUE))
    /\ lock' = "free"
    /\ ret' = Returned("store_file", writers[c].path, Ok("unit"))
    /\ latest' = [latest EXCEPT ![writers[c].path] = Some(writers[c].parsed)]
    /\ ever' = ever \cup {writers[c].path}
    /\ UNCHANGED <<reader, hist, pvars>>

\* The caller takes the result; the connection is free for the next call
WriterReturn(c) ==
    /\ writers[c].pc = "done"
    /\ writers' = [writers EXCEPT ![c] = WriterIdle]
    /\ UNCHANGED <<dbvars, ret, latest, reader, hist, ever, lock, pvars>>

NextWriters ==
    \/ \E c \in Connections, p \in ConcPaths, parsed \in ConcParsedFiles :
          WriterBegin(c, p, parsed)
    \/ \E c \in Connections : WriterAcquire(c)
    \/ \E c \in Connections : WriterBusy(c)
    \/ \E c \in Connections : WriterExecute(c)
    \/ \E c \in Connections : WriterFail(c)
    \/ \E c \in Connections : WriterCommit(c)
    \/ \E c \in Connections : WriterReturn(c)

SpecWriters == Init /\ [][NextWriters]_vars

----------------------------------------------------------------------------
(* The texts given to the Parser *)

\* The pieces texts are put together from: the delimiters of the link and
\* label syntax, a one-byte and a two-byte char, the line break, the heading
\* mark and the space
Pieces ==
    {<<"[", "[">>,
     <<"]", "]">>,
     <<"]">>,
     <<"|">>,
     <<":">>,
     <<"a">>,
     <<"é">>,
     <<"\n">>,
     <<"<">>,
     <<">">>,
     <<"=">>,
     <<" ">>}

\* The texts of at most n pieces
RECURSIVE TextsOfPieces(_)
TextsOfPieces(n) ==
    IF n = 0 THEN {<<>>}
    ELSE TextsOfPieces(n - 1) \cup {t \o p : t \in TextsOfPieces(n - 1), p \in Pieces}

\* Targets, and labels and aliases, of the links written in full
TargetNames ==
    {<<"a">>,
     <<"é">>,
     <<"[">>,
     <<"A", ".">>,
     <<".", ".", "/", "-">>,
     <<" ", "a", " ">>}

LabelNames ==
    {<<"a">>,
     <<"é", ":">>,
     <<"[", "[">>,
     <<"A", " ">>}

AliasNames == LabelNames

\* The text of a link with the given parts, label and alias being Options
LinkText(target, label, alias) ==
    <<"[", "[">> \o target
        \o (IF label.is_some THEN <<":">> \o label.val ELSE <<>>)
        \o (IF alias.is_some THEN <<"|">> \o alias.val ELSE <<>>)
        \o <<"]", "]">>

\* The text of an explicit label
LabelText(name) == <<"<">> \o name \o <<">">>

Options(S) == {None} \cup {Some(x) : x \in S}

\* [[t]], [[t|a]], [[t:l]] and [[t:l|a]] over the names above, and explicit
\* labels
MarkupTexts ==
    {LinkText(t, l, a) : t \in TargetNames, l \in Options(LabelNames),
                         a \in Options(AliasNames)}
      \cup {LabelText(n) : n \in {<<"a">>,
                              <<"A", ".">>,
                              <<"-", ":", "_", "7">>}}

\* What stands before and behind the markup
Prefixes ==
    {<<>>,
     <<"é">>,
     <<"é", "é", " ">>,
     <<"a", "\n">>,
     <<"[">>}

Suffixes ==
    {<<>>,
     <<"]">>,
     <<"a">>,
     <<"é", "<", "a", ">">>}

\* What the text of a heading is made of: a letter to be lowercased, a char
\* that is not ASCII, the two marks the name keeps, and two chars it does not
HeadingPieces == {"A", "é", "-", "_", " ", ":"}

\* The heading texts of at most n chars
RECURSIVE HeadingTexts(_)
HeadingTexts(n) ==
    IF n = 0 THEN {<<>>}
    ELSE HeadingTexts(n - 1) \cup {t \o <<c>> : t \in HeadingTexts(n - 1), c \in HeadingPieces}

\* Headings of level one and two, on the first or the second line
HeadingContents ==
    {pre \o head \o t :
        pre \in {<<>>, <<"a", "\n">>},
        head \in {<<"=", " ">>, <<"=", "=", " ", "\t">>},
        t \in HeadingTexts(MaxPieces)}

\* Two links, one behind the other or on two lines
LinkPairContents ==
    {first \o between \o second :
        first \in {<<"[", "[", "a", "]", "]">>,
                  <<"[", "[", "[", "a", "]", "]">>,
                  <<"[", "[", "é", ":", "a", "|", "a", "]", "]">>},
        between \in {<<>>,
                    <<" ", "é">>,
                    <<"\n">>,
                    <<"]", "\n", "\n">>},
        second \in {<<"[", "[", "a", "]", "]">>,
                   <<"[", "[", "a", "|", "é", "]", "]", " ", "[", "[", "a", "]", "]">>}}

\* Headings with labels in them, and labels around headings
MixedLabelContents ==
    {<<"=", " ", "A", " ", "<", "a", ">">>,
     <<"=", " ", "<", "a", ">">>,
     <<"=", " ", "<", "-", ">">>,
     <<"=", "=", " ", "<", "a", ">", " ", "é", " ", "<", "a", ".", "b", ">">>,
     <<"<", "a", ">", "\n", "=", " ", "A">>,
     <<"a", " ", "<", "a", ">", "\n", "=", " ", "é", " ", "<", "a", ">",
       "\n", "<", "a", ">">>}

\* The content of test_parse_mixed_labels (labels.rs 126)
MixedLabelsTestContent ==
    <<"=", " ", "S", "e", "c", "t", "i", "o", "n", "\n", "S", "o", "m",
      "e", " ", "t", "e", "x", "t", " ", "w", "i", "t", "h", " ", "<",
      "e", "x", "p", "l", "i", "c", "i", "t", "-", "l", "a", "b", "e",
      "l", ">", "\n", "=", "=", " ", "S", "u", "b", "s", "e", "c", "t",
      "i", "o", "n">>

\* The content of test_parse_multiline_content (parser_tests.rs 144-156)
MultilineTestContent ==
    <<"=", " ", "F", "i", "r", "s", "t", " ", "S", "e", "c", "t", "i",
      "o", "n", "\n", "S", "o", "m", "e", " ", "c", "o", "n", "t", "e",
      "n", "t", " ", "h", "e", "r", "e", ".", "\n", "\n", "=", "=", " ",
      "S", "e", "c", "o", "n", "d", " ", "S", "e", "c", "t", "i", "o",
      "n", "\n", "W", "i", "t", "h", " ", "[", "[", "w", "i", "k", "i",
      "l", "i", "n", "k", "1", "]", "]", " ", "a", "n", "d", " ", "<",
      "l", "a", "b", "e", "l", "1", ">", "\n", "\n", "=", "=", "=", " ",
      "T", "h", "i", "r", "d", " ", "S", "e", "c", "t", "i", "o", "n",
      "\n", "M", "o", "r", "e", " ", "[", "[", "w", "i", "k", "i", "l",
      "i", "n", "k", "2", "|", "a", "l", "i", "a", "s", "]", "]", " ",
      "a", "n", "d", " ", "<", "l", "a", "b", "e", "l", "2", ">", "\n",
      "\n", "T", "h", "i", "s", " ", "c", "o", "n", "t", "i", "n", "u",
      "e", "s", " ", "o", "n", " ", "m", "u", "l", "t", "i", "p", "l",
      "e", " ", "l", "i", "n", "e", "s", ".", "\n", "\n", "[", "[", "w",
      "i", "k", "i", "l", "i", "n", "k", "3", "]", "]", " ", "a", "t",
      " ", "t", "h", "e", " ", "e", "n", "d", ".", "\n">>

\* The file texts: every text of at most MaxPieces pieces, one link or label
\* with text around it, the headings, pairs of links, labels with headings,
\* and the contents of two tests
Contents ==
    TextsOfPieces(MaxPieces)
      \cup {pre \o m \o post : pre \in Prefixes, m \in MarkupTexts, post \in Suffixes}
      \cup HeadingContents
      \cup LinkPairContents
      \cup MixedLabelContents
      \cup {MixedLabelsTestContent, MultilineTestContent}

----------------------------------------------------------------------------
(* The Parser on a text: parse_wikilinks, parse_labels and parse_content   *)
(* are pure, so each call only leaves its result in pret.                  *)

ParserReturned(op, file_ok, tool, res) ==
    [op |-> op, file_ok |-> file_ok, tool |-> tool, res |-> res]

\* Parser::new, and the text of the file it is going to be given
InitText ==
    /\ IndexInit
    /\ file_content \in Contents
    /\ pret = ParserIdle

ParseWikilinks ==
    /\ pret' = ParserReturned("parse_wikilinks", TRUE, ParserIdle.tool,
                              Ok(parse_wikilinks(file_content)))
    /\ UNCHANGED <<ivars, file_content>>

ParseLabels ==
    /\ pret' = ParserReturned("parse_labels", TRUE, ParserIdle.tool,
                              Ok(parse_labels(file_content)))
    /\ UNCHANGED <<ivars, file_content>>

ParseContent ==
    /\ pret' = ParserReturned("parse_content", TRUE, ParserIdle.tool,
                              parse_content(file_content))
    /\ UNCHANGED <<ivars, file_content>>

NextText ==
    \/ ParseWikilinks
    \/ ParseLabels
    \/ ParseContent

SpecText == InitText /\ [][NextText]_vars

----------------------------------------------------------------------------
(* The outcomes of the typst command *)

\* Members of the objects the tool prints
\* a title: 'title':'T'
TitleMember ==
    <<"\"", "t", "i", "t", "l", "e", "\"", ":", "\"", "T", "\"">>

\* a title that is no string: 'title':7
TitleNoString ==
    <<"\"", "t", "i", "t", "l", "e", "\"", ":", "7">>

\* tags of which one is no string: 'tags':['t',7]
TagsMember ==
    <<"\"", "t", "a", "g", "s", "\"", ":", "[", "\"", "t", "\"", ",", "7", "]">>

\* tags that are no array: 'tags':'t'
TagsNoArray ==
    <<"\"", "t", "a", "g", "s", "\"", ":", "\"", "t", "\"">>

\* an alias: 'alias':['n']
AliasMember ==
    <<"\"", "a", "l", "i", "a", "s", "\"", ":", "[", "\"", "n", "\"", "]">>

\* two aliases around a number: 'alias':['m',7,'n']
AliasesMember ==
    <<"\"", "a", "l", "i", "a", "s", "\"", ":", "[", "\"", "m", "\"", ",", "7", ",", "\"", "n", "\"", "]">>

\* a key of its own: 'k':null
OwnMember ==
    <<"\"", "k", "\"", ":", "n", "u", "l", "l">>

\* a key of its own with an array: 'k':[7,'t']
OwnArrayMember ==
    <<"\"", "k", "\"", ":", "[", "7", ",", "\"", "t", "\"", "]">>

Members ==
    {TitleMember,
     TitleNoString,
     TagsMember,
     TagsNoArray,
     AliasMember,
     AliasesMember,
     OwnMember,
     OwnArrayMember}

\* The sequences of at most n members
RECURSIVE MemberLists(_)
MemberLists(n) ==
    IF n = 0 THEN {<<>>}
    ELSE MemberLists(n - 1) \cup {ms \o <<m>> : ms \in MemberLists(n - 1), m \in Members}

\* The text of the object with the given members
ObjectText(ms) == <<"{">> \o join(ms, <<",">>) \o <<"}">>

\* Well-formed output: objects of at most MaxMembers members, an object with
\* a byte in its title that is not UTF-8, and values that are no objects
WellFormedOutputs ==
    {ObjectText(ms) : ms \in MemberLists(MaxMembers)}
      \cup {<<"{", "\"", "t", "i", "t", "l", "e", "\"", ":", "\"",
              InvalidByte, "\"", "}">>,
            <<"7">>,
            <<"7", "\n">>,
            <<"\"", "T", "\"">>,
            <<"[", "]">>}

\* The standard output of a run: a well-formed output or one cut short
Outputs ==
    UNION {{SubSeq(t, 1, n) : n \in 0..Len(t)} : t \in WellFormedOutputs}

ToolOutcomes ==
    {ToolOutcome("not_found", FALSE, <<>>), ToolOutcome("other", FALSE, <<>>),
     ToolOutcome("ok", FALSE, <<>>), ToolOutcome("ok", FALSE, ObjectText(<<>>))}
      \cup {ToolOutcome("ok", TRUE, t) : t \in Outputs}

\* The texts of the files parse_file is given
MetadataContents ==
    {<<>>,
     <<"é", "[", "[", "a", ":", "b", "|", "c", "]", "]", "\n", "=",
       " ", "A", " ", "<", "l", ">">>}

----------------------------------------------------------------------------
(* The Parser on a file: extract_metadata and parse_file, each call given  *)
(* what the run of the tool comes to                                       *)

\* The file's text and what a run of the tool on the file comes to are drawn
\* here; the calls below are made on that file
InitMetadata ==
    /\ IndexInit
    /\ file_content \in MetadataContents
    /\ pret \in {[ParserIdle EXCEPT !.tool = tool] : tool \in ToolOutcomes}

ExtractMetadata ==
    /\ pret' = ParserReturned("extract_metadata", TRUE, pret.tool,
                              extract_metadata(pret.tool))
    /\ UNCHANGED <<ivars, file_content>>

\* parse_file on a file that read_to_string can (Ok) or cannot (Err) read
ParseFile(file_ok) ==
    /\ pret' = ParserReturned("parse_file", file_ok, pret.tool,
                              parse_file(IF file_ok THEN Ok(file_content)
                                         ELSE Err("io"), pret.tool))
    /\ UNCHANGED <<ivars, file_content>>

NextMetadata ==
    \/ ExtractMetadata
    \/ \E file_ok \in BOOLEAN : ParseFile(file_ok)

SpecMetadata == InitMetadata /\ [][NextMetadata]_vars

----------------------------------------------------------------------------
(* Properties *)

\* The paths store_file accepts: under the root and valid UTF-8
Indexable(p) == get_relative_path(p).ok /\ to_str(p).is_some

\* The ids of the rows of files
LiveIds == {f.id : f \in files}

\* Some row of the table belongs to no row of files
HasOrphans(rows) == \E i \in 1..Len(rows) : rows[i].file_id \notin LiveIds

Range(seq) == {seq[i] : i \in 1..Len(seq)}

\* The wikilinks of the last successful store_file of p, none if p was removed
\* since or never stored
LatestWikilinks(p) == IF latest[p].is_some THEN latest[p].val.wikilinks ELSE <<>>

\* C1: after any sequence of store_file and remove_file calls,
\* get_forward_links(p) returns exactly the wikilinks of the most recent
\* store_file of p, in their order in that ParsedFile, and nothing if p was
\* removed since; no wikilink of an earlier store of p is returned.
C1_ForwardLinksOfLatestStore ==
    \A p \in Paths :
        Indexable(p) => get_forward_links(DB, p) = Ok(LatestWikilinks(p))

\* C1 witness: a store_file has just replaced the content of an indexed path
\* whose earlier wikilink rows are still in the table, and the new content has
\* wikilinks of its own
C1_Witness ==
    /\ ret.op = "store_file"
    /\ ret.res.ok
    /\ Len(LatestWikilinks(ret.path)) = 1
    /\ Len(wikilinks) > 1
    /\ HasOrphans(wikilinks)

\* The positions of the wikilinks of the latest store of q whose target is stem
LinkPositions(q, stem) ==
    {i \in 1..Len(LatestWikilinks(q)) : LatestWikilinks(q)[i].target = stem}

\* The pairs (source path, wikilink) over the latest stores of the indexed
\* files whose wikilink targets stem
ExpectedBacklinks(stem) ==
    UNION {{<<q, LatestWikilinks(q)[i]>> : i \in LinkPositions(q, stem)} : q \in Paths}

RECURSIVE SumOver(_, _)
SumOver(S, stem) ==
    IF S = {} THEN 0
    ELSE LET q == CHOOSE x \in S : TRUE
         IN  Cardinality(LinkPositions(q, stem)) + SumOver(S \ {q}, stem)

\* C2: in every state reachable by store_file and remove_file calls,
\* get_backward_links(p) returns exactly the pairs (source path, wikilink) where
\* the source is a currently indexed file, the wikilink belongs to that file's
\* most recent store and its target equals the stem of p: none is missing, no
\* other is returned, and each occurrence is returned once.
C2_BackwardLinksExact ==
    \A p \in Paths :
        file_stem(p).is_some =>
            /\ get_backward_links(DB, p).ok
            /\ Range(get_backward_links(DB, p).val) = ExpectedBacklinks(file_stem(p).val)
            /\ Len(get_backward_links(DB, p).val) = SumOver(Paths, file_stem(p).val)

\* C2 witness: a file is indexed whose wikilink targets some stem, while a row
\* of a superseded store with that same target is still in wikilinks
C2_Witness ==
    \E p \in Paths :
        /\ file_stem(p).is_some
        /\ ExpectedBacklinks(file_stem(p).val) # {}
        /\ \E i \in 1..Len(wikilinks) :
              /\ wikilinks[i].file_id \notin LiveIds
              /\ wikilinks[i].target = file_stem(p).val

\* C3: round trip: a successful store_file(p, pf) followed by get_file(p)
\* returns Some(pf') whose title, tags, alias and custom map equal those of pf
\* and whose wikilinks and labels equal those of pf in the same order.
C3_RoundTrip ==
    (ret.op = "store_file" /\ ret.res.ok) =>
        /\ get_file(DB, ret.path).ok
        /\ get_file(DB, ret.path).val.is_some
        /\ get_file(DB, ret.path).val.val.metadata = latest[ret.path].val.metadata
        /\ get_file(DB, ret.path).val.val.wikilinks = latest[ret.path].val.wikilinks
        /\ get_file(DB, ret.path).val.val.labels = latest[ret.path].val.labels

\* C4: store_file is all-or-nothing: if a call fails at any point, every later
\* get_file, get_forward_links, get_backward_links and get_all_metadata returns
\* what it returned before the call, for every path.
C4_FailedStoreChangesNothing ==
    [][(ret'.op = "store_file" /\ ~ret'.res.ok) =>
          \* the results are functions of the tables: they are only computed
          \* when some table has changed
          \/ dbvars' = dbvars
          \/ /\ \A p \in Paths :
                  /\ get_file(Database(files', metadata', wikilinks', labels'), p)
                       = get_file(DB, p)
                  /\ get_forward_links(Database(files', metadata', wikilinks', labels'), p)
                       = get_forward_links(DB, p)
                  /\ get_backward_links(Database(files', metadata', wikilinks', labels'), p)
                       = get_backward_links(DB, p)
             /\ get_all_metadata(Database(files', metadata', wikilinks', labels'))
                  = get_all_metadata(DB)]_vars

\* C4 witness: a statement of the transaction has failed in a store_file of a
\* path that is indexed with metadata, wikilinks and labels
C4_Witness ==
    /\ ret.op = "store_file"
    /\ ~ret.res.ok
    /\ ret.res.err = "sqlite"
    /\ latest[ret.path].is_some
    /\ get_file(DB, ret.path).val.val.wikilinks # <<>>
    /\ get_all_metadata(DB).val # <<>>

\* What get_file returns for a file whose rows are those of one store_file of
\* parsed, custom being written in the given order
ViewOfStore(parsed, order) ==
    LET d == store_file(EmptyDatabase, PathA, parsed, order, 0).db
    IN  [metadata |-> QueryMetadata(d, 1),
         wikilinks |-> QueryWikilinks(d, 1),
         labels |-> QueryLabels(d, 1)]

\* C5: a get_file(p) that runs on one connection while store_file and
\* remove_file calls commit on another never returns a mix: its result is
\* either None or a ParsedFile whose metadata, wikilinks and labels all come
\* from one single store_file call for p.
C5_ReaderSeesOneStore ==
    (reader.pc = "done" /\ reader.result.ok /\ reader.result.val.is_some) =>
        \E parsed \in hist[reader.path] :
            \E order \in Orders(DOMAIN parsed.metadata.custom) :
                /\ reader.result.val.val.metadata = ViewOfStore(parsed, order).metadata
                /\ reader.result.val.val.wikilinks = ViewOfStore(parsed, order).wikilinks
                /\ reader.result.val.val.labels = ViewOfStore(parsed, order).labels

\* C6: once remove_file(q) has succeeded, no later get_backward_links result
\* contains a record whose source is q, whatever is stored, re-stored or
\* removed afterwards, until q itself is stored again.
C6_NoBacklinkFromRemovedFile ==
    \A q \in Paths :
        (Indexable(q) /\ ~latest[q].is_some) =>
            \A p \in Paths :
                file_stem(p).is_some =>
                    \A i \in 1..Len(get_backward_links(DB, p).val) :
                        get_backward_links(DB, p).val[i][1] # q

\* C6 witness: a file has been stored after another one was removed, and a
\* wikilink row that no indexed file owns still targets the stored file's stem
C6_Witness ==
    /\ ret.op = "store_file"
    /\ ret.res.ok
    /\ \E q \in Paths : Indexable(q) /\ ~latest[q].is_some
    /\ \E i \in 1..Len(wikilinks) :
          /\ wikilinks[i].file_id \notin LiveIds
          /\ wikilinks[i].target = file_stem(ret.path).val

\* C7: every store/query operation given a path that does not lie under the
\* workspace root is rejected with an error: store_file, get_file,
\* get_forward_links, get_backward_links and remove_file.
C7_OutsideRootRejected ==
    (/\ ~get_relative_path(ret.path).ok
     /\ ret.op \in {"store_file", "get_file", "get_forward_links",
                    "get_backward_links", "remove_file"})
        => ~ret.res.ok

C9_IsImplicitPersisted ==
    \A p \in Paths :
        latest[p].is_some =>
            LET rows == SelectByFileId(labels,
                            SelectFileId(files, get_relative_path(p).val).val)
            IN  /\ Len(rows) = Len(latest[p].val.labels)
                /\ \A i \in 1..Len(rows) :
                      rows[i].is_implicit = Some(latest[p].val.labels[i].is_implicit)
                /\ get_file(DB, p).val.val.labels = latest[p].val.labels

\* C10: re-indexing an already indexed path keeps the identity of its files
\* row: the id of the row for path p is the same before and after a second
\* store_file(p, .).
C10_RestoreKeepsFileId ==
    [][(ret'.op = "store_file" /\ ret'.res.ok /\ latest[ret'.path].is_some) =>
          SelectFileId(files', get_relative_path(ret'.path).val)
            = SelectFileId(files, get_relative_path(ret'.path).val)]_vars

\* The rows of a table that carry one of the given file ids
RowsOfIds(rows, ids) == SelectSeq(rows, LAMBDA r : r.file_id \in ids)

\* C11: after store_file(p, pf) commits on a path p that was already indexed,
\* the metadata, wikilinks and labels tables contain no row written by any
\* earlier store of p: all previously existing rows of that file have been
\* deleted and only the rows of pf remain for it.
C11_RestoreLeavesOnlyNewRows ==
    [][(ret'.op = "store_file" /\ ret'.res.ok /\ latest[ret'.path].is_some) =>
          LET rel == get_relative_path(ret'.path).val
              ids == {SelectFileId(files, rel).val, SelectFileId(files', rel).val}
              new == SelectFileId(files', rel).val
          IN  /\ RowsOfIds(metadata', ids) = SelectByFileId(metadata', new)
              /\ RowsOfIds(wikilinks', ids) = SelectByFileId(wikilinks', new)
              /\ RowsOfIds(labels', ids) = SelectByFileId(labels', new)
              /\ get_forward_links(Database(files', metadata', wikilinks', labels'),
                                   ret'.path)
                   = Ok(latest'[ret'.path].val.wikilinks)]_vars

\* The tables after the step
DBNext == Database(files', metadata', wikilinks', labels')

\* What the queries say of a path that is not in the index
Absent(d, p) == get_file(d, p) = Ok(None) /\ get_forward_links(d, p) = Ok(<<>>)

\* C13: after a successful remove_file(p) of an indexed path p, get_file(p)
\* returns None and get_forward_links(p) returns an empty list in every later
\* state until p is stored again.
C13_RemovedStaysAbsent ==
    [][\A p \in Paths :
          Indexable(p) =>
              \* the removal makes p absent
              /\ (ret'.op = "remove_file" /\ ret'.path = p /\ ret'.res.ok)
                    => Absent(DBNext, p)
              \* and p stays absent through every step but a store of p
              /\ (/\ ~latest[p].is_some
                  /\ ~(ret'.op = "store_file" /\ ret'.path = p /\ ret'.res.ok))
                    => \/ dbvars' = dbvars
                       \/ ~Absent(DB, p)
                       \/ Absent(DBNext, p)]_vars

\* C13 witness: a file stored with wikilinks has been removed, and a store of
\* another file has committed since
C13_Witness ==
    /\ ret.op = "store_file"
    /\ ret.res.ok
    /\ \E p \in Paths \ {ret.path} :
          /\ Indexable(p)
          /\ ~latest[p].is_some
          /\ \E i \in 1..Len(wikilinks) : wikilinks[i].file_id \notin LiveIds
          /\ Absent(DB, p)

\* C15: in every reachable state the files table holds at most one row per
\* root-relative path, however many times each path has been stored,
\* re-stored or removed.
C15_OneFilesRowPerPath ==
    \A f \in files : \A g \in files : f.path = g.path => f = g

\* C15 witness: a path has been stored a second time while it was indexed:
\* the only files row has the second id and the rows of the first are orphans
C15_Witness ==
    /\ ret.op = "store_file"
    /\ ret.res.ok
    /\ Cardinality(files) = 1
    /\ \A f \in files : f.id = 2
    /\ HasOrphans(metadata)

C12_ConcurrentStoresSerialized ==
    [][\A c \in Connections :
          (writers[c].pc = "writing" /\ writers'[c].pc = "done" /\ writers'[c].res.ok) =>
              /\ DBNext = store_file(DB, writers[c].path, writers[c].parsed,
                                     writers[c].order, 0).db
              /\ get_file(DBNext, writers[c].path).ok
              /\ get_file(DBNext, writers[c].path).val.is_some
              /\ get_file(DBNext, writers[c].path).val.val.metadata
                   = ViewOfStore(writers[c].parsed, writers[c].order).metadata
              /\ get_file(DBNext, writers[c].path).val.val.wikilinks
                   = ViewOfStore(writers[c].parsed, writers[c].order).wikilinks
              /\ get_file(DBNext, writers[c].path).val.val.labels
                   = ViewOfStore(writers[c].parsed, writers[c].order).labels]_vars

\* C12 witness: two store_file calls for one path, one begun while the other
\* was in progress, have both committed, with different contents
C12_Witness ==
    /\ \A c \in Connections : writers[c].pc = "done" /\ writers[c].res.ok
    /\ \E c \in Connections : writers[c].overlap
    /\ \A c \in Connections : \A o \in Connections :
          /\ writers[c].path = writers[o].path
          /\ c # o => writers[c].parsed # writers[o].parsed

----------------------------------------------------------------------------
(* The link syntax as the specification words it, without the pattern:     *)
(* where in a text a link stands and what its parts are                    *)

\* The chars a target, and a label or an alias, must not hold
NotInTarget == {"|", "]", ":", "\n"}
NotInLabel == {"|", "]", "\n"}

\* The ends of the non-empty names that start at p and hold none of the chars
NameEnds(text, p, excluded) ==
    {e \in p..Len(text) : \A k \in p..e : text[k] \notin excluded}

\* The names that may stand at p behind the mark, and no name at all
OptionalNamesAt(text, p, mark, excluded) ==
    {None} \cup (IF Lit(text, p, <<mark>>)
                 THEN {Some(SubSeq(text, p + 1, e)) : e \in NameEnds(text, p + 1, excluded)}
                 ELSE {})

\* The length of an optional part with its mark
MarkedLen(part) == IF part.is_some THEN 1 + Len(part.val) ELSE 0

\* The links [[t]], [[t|a]], [[t:l]], [[t:l|a]] that stand at position i
LinkOccurrencesAt(text, i) ==
    IF ~Lit(text, i, <<"[", "[">>) THEN {}
    ELSE {o \in UNION {UNION {{[from |-> i, target |-> SubSeq(text, i + 2, te),
                                label |-> l, alias |-> a] :
                                  a \in OptionalNamesAt(text, te + 1 + MarkedLen(l),
                                                        "|", NotInLabel)} :
                              l \in OptionalNamesAt(text, te + 1, ":", NotInLabel)} :
                       te \in NameEnds(text, i + 2, NotInTarget)} :
            Lit(text, i, LinkText(o.target, o.label, o.alias))}

\* The links that stand anywhere in the text
LinkOccurrences(text) == UNION {LinkOccurrencesAt(text, i) : i \in 1..Len(text)}

\* str::is_char_boundary
is_char_boundary(line, index) == \E j \in 1..(Len(line) + 1) : ByteOffset(line, j) = index

\* C18: for every text input, including malformed, unterminated or nested
\* bracket sequences and multi-byte characters before a match, parse_wikilinks
\* terminates and returns a (possibly empty) list; it has no error or panic
\* path (every slice line[..start] is taken at a char boundary), and text
\* with no well-formed link yields an empty list.
C18_ParseWikilinksNeverFails ==
    pret.op = "parse_wikilinks" =>
        /\ pret.res.ok
        /\ DOMAIN pret.res.val = 1..Len(pret.res.val)
        /\ \A k \in 1..Len(pret.res.val) :
              DOMAIN pret.res.val[k] = {"target", "alias", "label", "line", "column"}
        /\ \A n \in 1..Len(lines(file_content)) :
              \A k \in 1..Len(WikilinkCaptures(lines(file_content)[n], 1)) :
                  is_char_boundary(lines(file_content)[n],
                                   ByteOffset(lines(file_content)[n],
                                              WikilinkCaptures(lines(file_content)[n], 1)[k].from))
        /\ LinkOccurrences(file_content) = {} => pret.res.val = <<>>

\* C18 witness: parse_wikilinks has returned the empty list for a text that
\* opens a link and holds a closing bracket but no well-formed link
C18_Witness ==
    /\ pret.op = "parse_wikilinks"
    /\ Lit(file_content, 1, <<"[", "[">>)
    /\ \E k \in 1..Len(file_content) : file_content[k] = "]"
    /\ LinkOccurrences(file_content) = {}
    /\ pret.res.val = <<>>

\* The records of the list that carry the given line number, in their order
OnLine(records, n) == SelectSeq(records, LAMBDA r : r.line = n)

\* The only element of a set of one
TheOne(S) == CHOOSE x \in S : TRUE

\* C19: for every non-empty target t without '|', ']', ':' or newline, and
\* every non-empty label l and alias a without '|', ']' or newline, a line
\* in which exactly one link of the forms [[t]], [[t|a]], [[t:l]], [[t:l|a]]
\* stands yields exactly one wikilink whose target is t, whose label is l when
\* written and absent otherwise, and whose alias is a when written and absent
\* otherwise; the three fields are the verbatim substrings, with no
\* normalization of case, dots, slashes, dashes or '..'.
C19_OneLinkOneWikilink ==
    pret.op = "parse_wikilinks" =>
        \A n \in 1..Len(lines(file_content)) :
            Cardinality(LinkOccurrences(lines(file_content)[n])) = 1 =>
                /\ Len(OnLine(pret.res.val, n)) = 1
                /\ OnLine(pret.res.val, n)[1].target
                     = TheOne(LinkOccurrences(lines(file_content)[n])).target
                /\ OnLine(pret.res.val, n)[1].label
                     = TheOne(LinkOccurrences(lines(file_content)[n])).label
                /\ OnLine(pret.res.val, n)[1].alias
                     = TheOne(LinkOccurrences(lines(file_content)[n])).alias

\* C19 witness: parse_wikilinks has returned for a text whose second line
\* holds, behind other text, one link with a label and an alias and with a
\* target made of dots, a slash and a dash
C19_Witness ==
    /\ pret.op = "parse_wikilinks"
    /\ Len(lines(file_content)) = 2
    /\ Cardinality(LinkOccurrences(lines(file_content)[2])) = 1
    /\ TheOne(LinkOccurrences(lines(file_content)[2])).target = <<".", ".", "/", "-">>
    /\ TheOne(LinkOccurrences(lines(file_content)[2])).label = Some(<<"é", ":">>)
    /\ TheOne(LinkOccurrences(lines(file_content)[2])).alias = Some(<<"A", " ">>)
    /\ Len(pret.res.val) = 1

\* The positions of the line breaks before position p of the text
BreaksBefore(text, p) == {k \in 1..(p - 1) : text[k] = "\n"}

\* The markup stands in the text at the given line and column, both counted
\* from 1, the column in chars
StandsAt(text, markup, line, column) ==
    \E p \in 1..Len(text) :
        /\ Lit(text, p, markup)
        /\ line = 1 + Cardinality(BreaksBefore(text, p))
        /\ column = p - MaxOf({0} \cup BreaksBefore(text, p))

WikilinksStandWhereReported(text, links) ==
    \A k \in 1..Len(links) :
        StandsAt(text, LinkText(links[k].target, links[k].label, links[k].alias),
                 links[k].line, links[k].column)

ExplicitLabelsStandWhereReported(text, found) ==
    \A k \in 1..Len(found) :
        ~found[k].is_implicit =>
            StandsAt(text, LabelText(found[k].name), found[k].line, found[k].column)

C16_MetadataAbsenceNeverFailsParse ==
    (/\ pret.op = "parse_file"
     /\ pret.file_ok
     /\ (pret.tool.spawn # "ok" \/ ~pret.tool.success))
        => pret.res = Ok(MkParsedFile(MetadataDefault,
                                      parse_wikilinks(file_content),
                                      parse_labels(file_content)))

\* C17: extract_metadata maps the four tool outcomes to four distinguishable
\* results and never conflates them: process not found gives TypstNotFound,
\* any other spawn failure gives ExecutionError, a non-zero exit gives
\* Ok(default Metadata), and a zero exit with malformed JSON on standard
\* output gives JsonError; and each of the three errors comes from its own
\* outcome only.
C17_FourOutcomesFourResults ==
    pret.op = "extract_metadata" =>
        /\ pret.tool.spawn = "not_found" <=> pret.res = Err("TypstNotFound")
        /\ pret.tool.spawn = "other" <=> pret.res = Err("ExecutionError")
        /\ (pret.tool.spawn = "ok" /\ ~pret.tool.success) => pret.res = Ok(MetadataDefault)
        /\ (/\ pret.tool.spawn = "ok"
            /\ pret.tool.success
            /\ pret.tool.stdout \notin WellFormedOutputs)
              <=> pret.res = Err("JsonError")

\* C17 witness: extract_metadata has returned JsonError for a run that exited
\* with success and printed an object cut short inside its second member
C17_Witness ==
    /\ pret.op = "extract_metadata"
    /\ pret.tool.spawn = "ok"
    /\ pret.tool.success
    /\ pret.tool.stdout \notin WellFormedOutputs
    /\ Lit(pret.tool.stdout, 1, <<"{">>)
    /\ \E k \in 1..Len(pret.tool.stdout) : pret.tool.stdout[k] = ","
    /\ pret.res = Err("JsonError")

----------------------------------------------------------------------------
(* The label syntax as the specification words it *)

\* The n-th smallest number of a set of numbers
NthOf(S, n) == CHOOSE x \in S : Cardinality({y \in S : y <= x}) = n

\* Letters, digits, '_', ':', '.' and '-'
InLabelName(c) == c \in Letters \cup DigitChars \cup {"_", ":", ".", "-"}

\* The position of the '>' that closes a label opened at position i of the
\* line: one or more chars of a name lie between the two; 0 if there is none
LabelCloseOf(line, i) ==
    LET closes == {e \in (i + 2)..Len(line) :
                      /\ line[e] = ">"
                      /\ \A k \in (i + 1)..(e - 1) : InLabelName(line[k])}
    IN  IF i \in 1..Len(line) /\ line[i] = "<" /\ closes # {}
        THEN CHOOSE e \in closes : TRUE ELSE 0

\* The positions of the line at which '<', a name and '>' stand.  The chars
\* of a name are neither '<' nor '>', so no two occurrences overlap.
LabelOccurrences(line) == {i \in 1..Len(line) : LabelCloseOf(line, i) # 0}

\* The names between the brackets, from left to right
LabelNamesOfLine(line) ==
    [n \in 1..Cardinality(LabelOccurrences(line)) |->
        SubSeq(line, NthOf(LabelOccurrences(line), n) + 1,
               LabelCloseOf(line, NthOf(LabelOccurrences(line), n)) - 1)]

\* The labels of a result that are explicit (or implicit) and of one line
LabelsOn(found, implicit, n) ==
    LET Wanted(l) == l.is_implicit = implicit /\ l.line = n
    IN  SelectSeq(found, Wanted)

ExplicitLabelsAreTheOccurrences(text, found) ==
    /\ \A k \in 1..Len(found) : found[k].line \in 1..Len(lines(text))
    /\ \A n \in 1..Len(lines(text)) :
          [k \in 1..Len(LabelsOn(found, FALSE, n)) |-> LabelsOn(found, FALSE, n)[k].name]
              = LabelNamesOfLine(lines(text)[n])

\* C21: for every line, parse_labels emits one explicit label (is_implicit =
\* false) for each non-overlapping occurrence, left to right, of '<' followed
\* by one or more characters from letters, digits, '_', ':', '.', '-'
\* followed by '>', with name equal to the text between the angle brackets;
\* an occurrence with an empty name or with any other character between the
\* brackets yields no label.
C21_ExplicitLabelPerOccurrence ==
    /\ pret.op = "parse_labels" =>
          ExplicitLabelsAreTheOccurrences(file_content, pret.res.val)
    /\ pret.op = "parse_content" =>
          ExplicitLabelsAreTheOccurrences(file_content, pret.res.val.labels)

\* C21 witness: parse_labels has returned two explicit labels for a line in
\* which two labels stand, one behind the other
C21_Witness ==
    /\ pret.op = "parse_labels"
    /\ \E n \in 1..Len(lines(file_content)) :
          /\ Cardinality(LabelOccurrences(lines(file_content)[n])) = 2
          /\ Len(LabelsOn(pret.res.val, FALSE, n)) = 2

\* The number of '=' the line starts with
MarksOf(line) ==
    MaxOf({0} \cup {n \in 1..Len(line) : \A k \in 1..n : line[k] = "="})

Blank(c) == c \in {" ", "\t"}

\* The line starts with one or more '=' followed by whitespace
IsHeadingLine(line) ==
    /\ MarksOf(line) >= 1
    /\ MarksOf(line) < Len(line)
    /\ Blank(line[MarksOf(line) + 1])

\* The text of a heading line: what follows the marks, without the
\* whitespace around it
HeadingTextOf(line) ==
    LET inked == {k \in (MarksOf(line) + 1)..Len(line) : ~Blank(line[k])}
    IN  IF inked = {} THEN <<>>
        ELSE SubSeq(line, CHOOSE k \in inked : \A j \in inked : k <= j, MaxOf(inked))

\* Lowercased, and every char that is not alphanumeric, '-' or '_' replaced
\* by '-'
Replaced(text) ==
    [k \in 1..Len(text) |->
        IF is_alphanumeric(to_lowercase(text[k])) \/ to_lowercase(text[k]) \in {"-", "_"}
        THEN to_lowercase(text[k]) ELSE "-"]

\* Split on '-', empty segments dropped, rejoined with '-': of every run of
\* '-' that has other chars on both sides one '-' is left, of any other run
\* none
HyphensSqueezed(text) ==
    LET kept == {k \in 1..Len(text) :
                    \/ text[k] # "-"
                    \/ /\ k > 1
                       /\ text[k - 1] # "-"
                       /\ \E j \in (k + 1)..Len(text) : text[j] # "-"}
    IN  [i \in 1..Cardinality(kept) |-> text[NthOf(kept, i)]]

ImplicitNameOf(line) == HyphensSqueezed(Replaced(HeadingTextOf(line)))

\* Non-empty, no leading, trailing or doubled '-', and only lowercase
\* alphanumerics (alphanumerics that lowercasing leaves as they are), '-'
\* and '_'
ImplicitNameWellFormed(name) ==
    /\ name # <<>>
    /\ name[1] # "-"
    /\ name[Len(name)] # "-"
    /\ \A k \in 1..(Len(name) - 1) : ~(name[k] = "-" /\ name[k + 1] = "-")
    /\ \A k \in 1..Len(name) :
          \/ name[k] \in {"-", "_"}
          \/ is_alphanumeric(name[k]) /\ to_lowercase(name[k]) = name[k]

ImplicitLabelsAreTheHeadings(text, found) ==
    /\ \A n \in 1..Len(lines(text)) :
          (IsHeadingLine(lines(text)[n]) /\ ImplicitNameOf(lines(text)[n]) # <<>>)
              => LabelsOn(found, TRUE, n)
                    = <<MkLabel(ImplicitNameOf(lines(text)[n]), n, 1, TRUE)>>
    /\ \A k \in 1..Len(found) :
          found[k].is_implicit => ImplicitNameWellFormed(found[k].name)

NoImplicitLabelOfEmptyHeading(text, found) ==
    \A n \in 1..Len(lines(text)) :
        (IsHeadingLine(lines(text)[n]) /\ ImplicitNameOf(lines(text)[n]) = <<>>)
            => LabelsOn(found, TRUE, n) = <<>>

\* C23: a heading line whose text is empty or whitespace-only (such as '='
\* followed only by spaces), or whose transformed name is the empty string
\* (text made only of characters that are replaced by '-'), yields no
\* implicit label.
C23_EmptyHeadingNoLabel ==
    /\ pret.op = "parse_labels" =>
          NoImplicitLabelOfEmptyHeading(file_content, pret.res.val)
    /\ pret.op = "parse_content" =>
          NoImplicitLabelOfEmptyHeading(file_content, pret.res.val.labels)

\* C23 witness: parse_labels has returned nothing for a heading whose text
\* is made of a colon, a space and a colon
C23_Witness ==
    /\ pret.op = "parse_labels"
    /\ Len(lines(file_content)) = 1
    /\ IsHeadingLine(lines(file_content)[1])
    /\ HeadingTextOf(lines(file_content)[1]) = <<":", " ", ":">>
    /\ pret.res.val = <<>>

----------------------------------------------------------------------------
(* Backward links *)

\* C24: backward-link resolution depends only on the stem: for any two paths
\* p1 and p2 with the same stem (different directories or extensions),
\* get_backward_links(p1) and get_backward_links(p2) return the same records
\* in every reachable state, whether or not p1 or p2 is itself indexed.
C24_BacklinksDependOnStemOnly ==
    /\ \A p1, p2 \in TargetPaths :
          (file_stem(p1).is_some /\ file_stem(p1) = file_stem(p2))
              => get_backward_links(DB, p1) = get_backward_links(DB, p2)
    /\ ret.op = "get_backward_links" =>
          \A p2 \in TargetPaths :
              (file_stem(p2).is_some /\ file_stem(p2) = file_stem(ret.path))
                  => ret.res = get_backward_links(DB, p2)

\* C24 witness: get_backward_links of other/a.md, which is not indexed and
\* not in the workspace, has returned a link to a, while ws/a.typ is indexed
C24_Witness ==
    /\ ret.op = "get_backward_links"
    /\ ret.path = PathOutside
    /\ ret.res.ok
    /\ ret.res.val # <<>>
    /\ \E f \in files : RootJoin(f.path) = PathA
    /\ ~\E f \in files : RootJoin(f.path) = PathOutside

\* C25: a backward link is a reference found in some other file:
\* get_backward_links(p) never returns a record whose source path is p
\* itself, even when the stored content of p contains a wikilink whose target
\* equals p's own stem.
C25_NoBacklinkFromItself ==
    (ret.op = "get_backward_links" /\ ret.res.ok)
        => \A k \in 1..Len(ret.res.val) : ret.res.val[k][1] # ret.path

----------------------------------------------------------------------------
(* Opening the index again *)

\* C26: opening the index is idempotent and state-preserving: calling
\* Index::new on a root whose store already exists succeeds and leaves all
\* rows unchanged, so every get_file, get_forward_links, get_backward_links
\* and get_all_metadata result after re-opening equals its result before.
C26_ReopenPreservesState ==
    [][ret'.op = "new" =>
          /\ ret'.res.ok
          /\ DBNext = DB
          /\ \A p \in TargetPaths :
                /\ get_file(DBNext, p) = get_file(DB, p)
                /\ get_forward_links(DBNext, p) = get_forward_links(DB, p)
                /\ get_backward_links(DBNext, p) = get_backward_links(DB, p)
          /\ get_all_metadata(DBNext) = get_all_metadata(DB)]_vars

\* C26 witness: Index::new has returned on a store that holds rows in all
\* four tables
C26_Witness ==
    /\ ret.op = "new"
    /\ files # {}
    /\ metadata # <<>>
    /\ wikilinks # <<>>
    /\ labels # <<>>

----------------------------------------------------------------------------
(* What remove_file leaves behind *)

\* The rows of a table that carry one of the given file ids
RowsOfFiles(rows, ids) == SelectSeq(rows, LAMBDA r : r.file_id \in ids)

\* C27: remove_file(p) deletes only the files row of p: the metadata,
\* wikilinks and labels tables are left exactly as they were, so the rows of
\* the removed file stay in the tables with a file_id that no longer refers
\* to a files row.
C27_RemoveDeletesOnlyFilesRow ==
    [][ret'.op = "remove_file" =>
          /\ metadata' = metadata
          /\ wikilinks' = wikilinks
          /\ labels' = labels
          /\ files' \subseteq files
          /\ \A f \in files \ files' : RootJoin(f.path) = ret'.path
          /\ LET gone == {f.id : f \in files} \ {f.id : f \in files'}
             IN  /\ RowsOfFiles(metadata', gone) = RowsOfFiles(metadata, gone)
                 /\ RowsOfFiles(wikilinks', gone) = RowsOfFiles(wikilinks, gone)
                 /\ RowsOfFiles(labels', gone) = RowsOfFiles(labels, gone)]_vars

\* C27 witness: remove_file has removed the only file of the index and the
\* rows of the file are in all three tables still
C27_Witness ==
    /\ ret.op = "remove_file"
    /\ ret.res.ok
    /\ files = {}
    /\ latest[ret.path] = None
    /\ ret.path \in ever
    /\ metadata # <<>>
    /\ wikilinks # <<>>
    /\ labels # <<>>

----------------------------------------------------------------------------
(* Stores to different files *)

\* The tables after a store_file that meets no fault
Stored(d, p, parsed, order) == store_file(d, p, parsed, order, 0).db

\* The set of backward links of a target, or the error
BacklinkSet(d, p) ==
    CHOOSE s \in {IF r.ok THEN Ok(Range(r.val)) ELSE r : r \in {get_backward_links(d, p)}} : TRUE

\* Two databases give the same get_file and get_forward_links results for
\* every path and the same set of backward links for every target
SameAnswers(d1, d2) ==
    \/ d1 = d2
    \/ \A p \in Paths :
          /\ get_file(d1, p) = get_file(d2, p)
          /\ get_forward_links(d1, p) = get_forward_links(d2, p)
          /\ BacklinkSet(d1, p) = BacklinkSet(d2, p)

\* C28: stores to different files do not interfere: for distinct paths A and
\* B, store_file(A, x) leaves get_file(B) and get_forward_links(B) unchanged
\* (the rows it deletes under the newly assigned file id never belong to a
\* currently indexed file), and store(A, x) followed by store(B, y) gives the
\* same get_file and get_forward_links results for every path and the same
\* set of backward links for every target as the two stores in the opposite
\* order.  A is the path of the step, x what it stored.
C28_StoresToDifferentFilesCommute ==
    [][(ret'.op = "store_file" /\ ret'.res.ok) =>
          \A B \in Paths \ {ret'.path} :
              /\ get_file(DBNext, B) = get_file(DB, B)
              /\ get_forward_links(DBNext, B) = get_forward_links(DB, B)
              /\ \A f \in files :
                    RootJoin(f.path) = B =>
                        /\ f \in files'
                        /\ RowsOfFiles(metadata', {f.id}) = RowsOfFiles(metadata, {f.id})
                        /\ RowsOfFiles(wikilinks', {f.id}) = RowsOfFiles(wikilinks, {f.id})
                        /\ RowsOfFiles(labels', {f.id}) = RowsOfFiles(labels, {f.id})
              /\ \A y \in ParsedFiles :
                    \A oy \in Orders(DOMAIN y.metadata.custom) :
                        \A ab \in {Stored(DBNext, B, y, oy)}, b \in {Stored(DB, B, y, oy)} :
                            \E ox \in Orders(DOMAIN latest'[ret'.path].val.metadata.custom) :
                                \E ba \in {Stored(b, ret'.path, latest'[ret'.path].val, ox)} :
                                    SameAnswers(ab, ba)]_vars

\* C28 witness: a store_file of a file with two wikilinks has returned while
\* another path is indexed, with rows in all three tables
C28_Witness ==
    /\ ret.op = "store_file"
    /\ ret.res.ok
    /\ Len(LatestWikilinks(ret.path)) > 1
    /\ \E f \in files :
          /\ RootJoin(f.path) # ret.path
          /\ RowsOfFiles(metadata, {f.id}) # <<>>
          /\ RowsOfFiles(wikilinks, {f.id}) # <<>>
          /\ RowsOfFiles(labels, {f.id}) # <<>>

----------------------------------------------------------------------------
(* The metadata of all files *)

\* How often x is an element of the sequence
CountIn(seq, x) == Cardinality({i \in 1..Len(seq) : seq[i] = x})

\* The (path, key, value) triples of the metadata rows of the most recent
\* store of p, none if p is not indexed
LatestMetadataTriples(p) ==
    IF ~latest[p].is_some THEN <<>>
    ELSE LET rows == MetadataInserts(latest[p].val.metadata,
                                     CHOOSE o \in Orders(DOMAIN latest[p].val.metadata.custom) : TRUE)
         IN  [i \in 1..Len(rows) |->
                 [path |-> get_relative_path(p).val, key |-> rows[i].key,
                  value |-> rows[i].value]]

\* The triples are those of the latest stores of the indexed files, each as
\* often as it was stored, in the order of path and then key
IsMetadataOfLatestStores(triples) ==
    /\ \A p \in Paths :
          \A t \in Range(LatestMetadataTriples(p)) :
              CountIn(triples, t) = CountIn(LatestMetadataTriples(p), t)
    /\ \A i \in 1..Len(triples) :
          \E p \in Paths : triples[i] \in Range(LatestMetadataTriples(p))
    /\ \A i, j \in 1..Len(triples) :
          i < j => ~SeqLess(SortKey(triples[j]), SortKey(triples[i]))

\* C29: in every reachable state get_all_metadata returns one (path, key,
\* value) triple for each metadata row of the most recent store of each
\* currently indexed file and no triple from a removed file or from a
\* superseded store, sorted by path and then by key.
C29_AllMetadataOfLatestStores ==
    /\ get_all_metadata(DB).ok
    /\ IsMetadataOfLatestStores(get_all_metadata(DB).val)
    /\ ret.op = "get_all_metadata" => ret.res = get_all_metadata(DB)

\* C29 witness: get_all_metadata has returned the four triples of a file
\* stored with two equal tags, an alias and a key of its own, while metadata
\* rows of a superseded store or of a removed file are in the table
C29_Witness ==
    /\ ret.op = "get_all_metadata"
    /\ ret.res.ok
    /\ Len(ret.res.val) = 4
    /\ \E i \in 1..3 : ret.res.val[i] = ret.res.val[i + 1]
    /\ HasOrphans(metadata)

----------------------------------------------------------------------------
(* Targets without a stem *)

\* The path has no stem that can be extracted: its last component has none,
\* or the stem is not UTF-8
HasNoStem(p) == p.stem = "" \/ ~p.utf8

\* C30: get_backward_links fails with an error, and returns no records, when
\* the given target path has no extractable stem (for example an empty path
\* or a path ending in '..'); the index state is unchanged.
C30_NoStemIsAnError ==
    [][(ret'.op = "get_backward_links" /\ HasNoStem(ret'.path)) =>
          /\ ~ret'.res.ok
          /\ DBNext = DB]_vars

\* C30 witness: get_backward_links of ws/.. has returned an error on an index
\* that holds wikilinks
C30_Witness ==
    /\ ret.op = "get_backward_links"
    /\ ret.path = PathParent
    /\ ~ret.res.ok
    /\ files # {}
    /\ wikilinks # <<>>

----------------------------------------------------------------------------
(* The order of the records *)

\* The text of the link a Wikilink was made from, and the column behind it
TextOfWikilink(w) == LinkText(w.target, w.label, w.alias)

EndOfWikilink(w) == w.column + Len(TextOfWikilink(w))

\* The link that stands at o.from has a char in common with the wikilink
Overlaps(o, w) ==
    /\ o.from < EndOfWikilink(w)
    /\ w.column < o.from + Len(LinkText(o.target, o.label, o.alias))

WikilinksLineByLine(text, links) ==
    \* each link stands in one line, which it does not leave
    /\ \A k \in 1..Len(links) :
          /\ links[k].line \in 1..Len(lines(text))
          /\ Lit(lines(text)[links[k].line], links[k].column, TextOfWikilink(links[k]))
          /\ \A j \in 1..Len(TextOfWikilink(links[k])) : TextOfWikilink(links[k])[j] # "\n"
    \* in the order of line and column, none starting inside the one before
    /\ \A k \in 1..(Len(links) - 1) :
          \/ links[k].line < links[k + 1].line
          \/ /\ links[k].line = links[k + 1].line
             /\ EndOfWikilink(links[k]) <= links[k + 1].column
    \* none left out: a link that stands in a line shares a char with one
    \* that was returned for the line
    /\ \A n \in 1..Len(lines(text)) :
          \A o \in LinkOccurrences(lines(text)[n]) :
              \E k \in 1..Len(links) : links[k].line = n /\ Overlaps(o, links[k])

\* C31: wikilink matching is done independently per line: no emitted wikilink
\* spans a line break, all matches of a line are captured left to right
\* without overlapping, and the output list is in appearance order, so the
\* (line, column) pairs of the returned wikilinks are strictly increasing
\* lexicographically.
C31_WikilinksInAppearanceOrder ==
    /\ pret.op = "parse_wikilinks" => WikilinksLineByLine(file_content, pret.res.val)
    /\ pret.op = "parse_content" =>
          WikilinksLineByLine(file_content, pret.res.val.wikilinks)

\* C31 witness: parse_wikilinks has returned three wikilinks, two of one
\* line and one of another, for a text whose first line holds a link that
\* starts inside another
C31_Witness ==
    /\ pret.op = "parse_wikilinks"
    /\ Len(pret.res.val) = 3
    /\ pret.res.val[1].line # pret.res.val[2].line
    /\ pret.res.val[2].line = pret.res.val[3].line
    /\ Cardinality(LinkOccurrences(lines(file_content)[1])) = 2

\* Line by line, and in a line the explicit labels from left to right
\* before the implicit one
LabelsInEmissionOrder(found) ==
    \A k \in 1..(Len(found) - 1) :
        \/ found[k].line < found[k + 1].line
        \/ /\ found[k].line = found[k + 1].line
           /\ ~found[k].is_implicit
           /\ ~found[k + 1].is_implicit => found[k].column < found[k + 1].column

\* The lines that are headings and hold a label between brackets
HeadingLinesWithLabel(text) ==
    {n \in 1..Len(lines(text)) :
        IsHeadingLine(lines(text)[n]) /\ LabelOccurrences(lines(text)[n]) # {}}

\* The result has explicit labels of the line and its implicit label
BothKindsOn(found, n) ==
    /\ LabelsOn(found, FALSE, n) # <<>>
    /\ Len(LabelsOn(found, TRUE, n)) = 1

EveryHeadingWithLabelYieldsBoth(text, found) ==
    \A n \in HeadingLinesWithLabel(text) : BothKindsOn(found, n)

\* C32 as stated: across lines the returned labels are in non-decreasing
\* line order, within one line all explicit labels (left to right) come
\* before that line's implicit heading label, and every heading line that
\* also contains an inline <name> yields both the explicit label and the
\* implicit label, in that order.
C32_EveryLabelledHeadingYieldsBoth ==
    /\ pret.op = "parse_labels" =>
          /\ LabelsInEmissionOrder(pret.res.val)
          /\ EveryHeadingWithLabelYieldsBoth(file_content, pret.res.val)
    /\ pret.op = "parse_content" =>
          /\ LabelsInEmissionOrder(pret.res.val.labels)
          /\ EveryHeadingWithLabelYieldsBoth(file_content, pret.res.val.labels)

NamedHeadingWithLabelYieldsBoth(text, found) ==
    \A n \in HeadingLinesWithLabel(text) :
        ImplicitNameOf(lines(text)[n]) # <<>> => BothKindsOn(found, n)

\* C32 amended: the returned labels are in non-decreasing line order, within
\* one line all explicit labels (left to right) come before that line's
\* implicit heading label, and a heading line that also contains an inline
\* <name> yields both the explicit label and the implicit label, in that
\* order, provided that the transformed heading text is not empty (a heading
\* such as '= <->' yields the explicit label only).
C32_LabelEmissionOrder ==
    /\ pret.op = "parse_labels" =>
          /\ LabelsInEmissionOrder(pret.res.val)
          /\ NamedHeadingWithLabelYieldsBoth(file_content, pret.res.val)
    /\ pret.op = "parse_content" =>
          /\ LabelsInEmissionOrder(pret.res.val.labels)
          /\ NamedHeadingWithLabelYieldsBoth(file_content, pret.res.val.labels)

\* C32 witness: parse_labels has returned the label of a first line, then
\* the explicit and the implicit label of a heading on the second line, then
\* the label of a third line
C32_Witness ==
    /\ pret.op = "parse_labels"
    /\ Len(pret.res.val) = 4
    /\ 2 \in HeadingLinesWithLabel(file_content)
    /\ pret.res.val[2].line = 2 /\ ~pret.res.val[2].is_implicit
    /\ pret.res.val[3].line = 2 /\ pret.res.val[3].is_implicit
    /\ pret.res.val[4].line = 3

----------------------------------------------------------------------------
(* test_parse_multiline_content (parser_tests.rs 142-180) *)

\* The line numbers of the records of a list
LineNumbers(records) == [k \in 1..Len(records) |-> records[k].line]

ExplicitOf(found) == LET Wanted(l) == ~l.is_implicit IN SelectSeq(found, Wanted)

ImplicitOf(found) == LET Wanted(l) == l.is_implicit IN SelectSeq(found, Wanted)

\* parse_content has returned for the document of the test
ParsedMultilineTest == pret.op = "parse_content" /\ file_content = MultilineTestContent

----------------------------------------------------------------------------
(* The objects the tool prints and the Metadata made of them *)

\* The key and the value a member stands for
MemberMeans(m) ==
    CASE m = TitleMember -> [key |-> KeyTitle, value |-> JStr(<<"T">>)]
      [] m = TitleNoString -> [key |-> KeyTitle, value |-> JNum(7)]
      [] m = TagsMember -> [key |-> KeyTags, value |-> JArr(<<JStr(<<"t">>), JNum(7)>>)]
      [] m = TagsNoArray -> [key |-> KeyTags, value |-> JStr(<<"t">>)]
      [] m = AliasMember -> [key |-> KeyAlias, value |-> JArr(<<JStr(<<"n">>)>>)]
      [] m = AliasesMember ->
            [key |-> KeyAlias,
             value |-> JArr(<<JStr(<<"m">>), JNum(7), JStr(<<"n">>)>>)]
      [] m = OwnMember -> [key |-> <<"k">>, value |-> JNull]
      [] m = OwnArrayMember ->
            [key |-> <<"k">>, value |-> JArr(<<JNum(7), JStr(<<"t">>)>>)]

KeysOf(ms) == {MemberMeans(ms[i]).key : i \in 1..Len(ms)}

\* The value of the key in the object: that of the last member with the key
ValueOfKey(ms, key) ==
    MemberMeans(ms[MaxOf({i \in 1..Len(ms) : MemberMeans(ms[i]).key = key})]).value

\* The strings among the elements of the array under the key, in their order
StringElements(ms, key) ==
    LET IsString(v) == v.t = "str"
        strings == IF key \in KeysOf(ms) /\ ValueOfKey(ms, key).t = "arr"
                   THEN SelectSeq(ValueOfKey(ms, key).elements, IsString)
                   ELSE <<>>
    IN  [k \in 1..Len(strings) |-> strings[k].s]

\* The Metadata of the object with the members ms
MetadataOfMembers(ms) ==
    MkMetadata(IF KeyTitle \in KeysOf(ms) /\ ValueOfKey(ms, KeyTitle).t = "str"
               THEN Some(ValueOfKey(ms, KeyTitle).s) ELSE None,
               StringElements(ms, KeyTags),
               StringElements(ms, KeyAlias),
               [key \in KeysOf(ms) \ {KeyTitle, KeyTags, KeyAlias} |->
                   ValueOfKey(ms, key)])

\* The tool has exited with success and extract_metadata has returned what
\* parse_metadata_json made of its output
ParsedMetadataJson ==
    /\ pret.op = "extract_metadata"
    /\ pret.tool.spawn = "ok"
    /\ pret.tool.success

\* C34: parse_metadata_json on a JSON object sets title from a string-valued
\* 'title' key, tags and alias from the string elements of array-valued
\* 'tags' and 'alias' keys in their original order, and puts every other key
\* with its unmodified value into custom; an empty object gives title absent
\* and empty tags, alias and custom; text that is not valid JSON gives an
\* error.
C34_MetadataOfJsonObject ==
    ParsedMetadataJson =>
        /\ \A ms \in MemberLists(MaxMembers) :
              pret.tool.stdout = ObjectText(ms) => pret.res = Ok(MetadataOfMembers(ms))
        /\ pret.tool.stdout = <<"{", "}">> =>
              pret.res = Ok(MkMetadata(None, <<>>, <<>>, <<>>))
        /\ pret.tool.stdout \notin WellFormedOutputs => ~pret.res.ok

\* C34 witness: parse_metadata_json has made the Metadata of an object with
\* two aliases around a number and with a key of its own whose value is an
\* array
C34_Witness ==
    /\ ParsedMetadataJson
    /\ pret.tool.stdout = ObjectText(<<AliasesMember, OwnArrayMember>>)
    /\ pret.res.ok
    /\ pret.res.val.title = None
    /\ pret.res.val.alias = <<<<"m">>, <<"n">>>>
    /\ DOMAIN pret.res.val.custom = {<<"k">>}

----------------------------------------------------------------------------
(* The same ParsedFile stored again *)

\* Two databases give the same answers to the four queries
SameObservations(d1, d2) ==
    /\ SameAnswers(d1, d2)
    /\ get_all_metadata(d1) = get_all_metadata(d2)

\* The rows of a file as they were written, whatever the id of the file
RowsAsWritten(rows, file_id) ==
    [k \in 1..Len(SelectByFileId(rows, file_id)) |->
        [SelectByFileId(rows, file_id)[k] EXCEPT !.file_id = 0]]

\* C35: store_file is idempotent for observers: storing the same ParsedFile
\* for the same path twice in succession yields the same get_file,
\* get_forward_links and get_all_metadata results and the same set of
\* backward links as storing it once (no duplicated metadata, wikilink or
\* label records become visible).  The step is the first store, of
\* latest'[ret'.path] to ret'.path; the second store is made on the tables
\* the step has left, in any order of the custom keys.
C35_StoreFileIdempotent ==
    [][(ret'.op = "store_file" /\ ret'.res.ok) =>
          \A order \in Orders(DOMAIN latest'[ret'.path].val.metadata.custom) :
              \A once \in {DBNext} :
                  \A twice \in {store_file(once, ret'.path, latest'[ret'.path].val,
                                           order, 0)} :
                      /\ twice.res.ok
                      /\ SameObservations(twice.db, once)
                      /\ get_file(twice.db, ret'.path) = get_file(once, ret'.path)
                      /\ get_forward_links(twice.db, ret'.path)
                            = get_forward_links(once, ret'.path)]_vars

\* C35 witness: a store_file has returned that wrote, under a new file id,
\* the rows the one before it had written for the same path: the rows of the
\* earlier store are still in the tables and belong to no file
C35_Witness ==
    /\ ret.op = "store_file"
    /\ ret.res.ok
    /\ \E f \in files :
          /\ RootJoin(f.path) = ret.path
          /\ \E old \in 1..MaxFileId :
                /\ old \notin LiveIds
                /\ RowsAsWritten(metadata, old) = RowsAsWritten(metadata, f.id)
                /\ RowsAsWritten(wikilinks, old) = RowsAsWritten(wikilinks, f.id)
                /\ RowsAsWritten(labels, old) = RowsAsWritten(labels, f.id)
                /\ Len(RowsAsWritten(metadata, old)) > 1
                /\ RowsAsWritten(wikilinks, old) # <<>>

----------------------------------------------------------------------------
(* An Index opened on a database that holds rows: Index::new opens the     *)
(* file .pkm-cache.db of the root and keeps the tables it finds, so the    *)
(* metadata rows get_file reads need not have been written by this         *)
(* store_file.                                                             *)

\* The key and value columns of the rows found: a title, a tag, a custom
\* value that is JSON, two that are not (a bare word, a string without its
\* closing quote)
FoundRows ==
    {[key |-> "title", value |-> <<"T">>],
     [key |-> "tags", value |-> <<"t">>],
     [key |-> "k", value |-> <<"7">>],
     [key |-> "k", value |-> <<"v">>],
     [key |-> "j", value |-> <<Quote, "v">>]}

\* The sequences of at most n rows
RECURSIVE RowLists(_)
RowLists(n) ==
    IF n = 0 THEN {<<>>}
    ELSE RowLists(n - 1) \cup {rs \o <<r>> : rs \in RowLists(n - 1), r \in FoundRows}

\* A ParsedFile with custom entries under the keys title and tags beside a
\* title and a tag of its own
ParsedReservedBeside ==
    MkParsedFile(MkMetadata(Some(<<"T">>), <<<<"t">>>>, <<>>,
                            ("title" :> JStr(<<"U">>)) @@ ("tags" :> JNum(7))),
                 <<>>, <<>>)

\* A ParsedFile with a custom entry under the key alias
ParsedReservedAlias ==
    MkParsedFile(MkMetadata(None, <<>>, <<<<"n">>>>,
                            ("alias" :> JNum(7)) @@ ("k" :> JStr(<<"v">>))),
                 <<>>, <<>>)

ReservedParsedFiles == {ParsedReserved, ParsedReservedBeside, ParsedReservedAlias}

\* Index::new on a root whose database holds the file a.typ with some rows
InitOpened ==
    /\ files = {[id |-> 1, path |-> get_relative_path(PathA).val]}
    /\ metadata \in {[k \in 1..Len(rs) |-> MetadataRow(1, rs[k])] : rs \in RowLists(MaxRows)}
    /\ wikilinks = <<>>
    /\ labels = <<>>
    /\ ret = Returned("new", PathA, Ok("unit"))
    /\ latest = [p \in Paths |-> None]
    /\ reader = ReaderIdle
    /\ hist = [p \in Paths |-> {}]
    /\ ever = {}
    /\ writers = [c \in Connections |-> WriterIdle]
    /\ lock = "free"
    /\ file_content = <<>>
    /\ pret = ParserIdle

NextOpened ==
    \/ \E p \in Paths, parsed \in ReservedParsedFiles : StoreFile(p, parsed)
    \/ \E p \in Paths : GetFile(p)

SpecOpened == InitOpened /\ [][NextOpened]_vars

\* The JSON value a found value is the text of, if it is one
JsonOfFound(value) == IF value = <<"7">> THEN Some(JNum(7)) ELSE None

ReservedKeys == {"title", "tags", "alias"}

\* The values of the rows of a key, in the order of the rows
ValuesUnder(rows, key) ==
    LET Wanted(r) == r.key = key
    IN  [k \in 1..Len(SelectSeq(rows, Wanted)) |-> SelectSeq(rows, Wanted)[k].value]

\* The metadata rows get_file reads for the path of the call
RowsRead(p) ==
    LET Owned(r) == \E f \in files : RootJoin(f.path) = p /\ f.id = r.file_id
    IN  SelectSeq(metadata, Owned)

\* get_file has returned a ParsedFile
GotFile == ret.op = "get_file" /\ ret.res.ok /\ ret.res.val.is_some

\* The custom entries of the last store under the three keys have come back
\* as their JSON text in title, tags and alias: the title is the text of the
\* custom entry, tags and alias end with it
ReservedCustomFolded(stored, got) ==
    /\ "title" \in DOMAIN stored.custom =>
          got.title = Some(to_string(stored.custom["title"]))
    /\ "tags" \in DOMAIN stored.custom =>
          got.tags = Append(stored.tags, to_string(stored.custom["tags"]))
    /\ "alias" \in DOMAIN stored.custom =>
          got.alias = Append(stored.alias, to_string(stored.custom["alias"]))
    /\ \A key \in (DOMAIN stored.custom) \ ReservedKeys :
          key \in DOMAIN got.custom /\ got.custom[key] = stored.custom[key]

\* The rows found that are no JSON are in no part of the Metadata, and the
\* custom map holds the rows that are
FoundRowsDropped(rows, got) ==
    /\ got.title = (IF ValuesUnder(rows, "title") = <<>> THEN None
                    ELSE Some(ValuesUnder(rows, "title")[Len(ValuesUnder(rows, "title"))]))
    /\ got.tags = ValuesUnder(rows, "tags")
    /\ got.alias = ValuesUnder(rows, "alias")
    /\ \A key \in DOMAIN got.custom :
          \E k \in 1..Len(rows) :
              rows[k].key = key /\ JsonOfFound(rows[k].value) = Some(got.custom[key])
    /\ \A k \in 1..Len(rows) :
          (rows[k].key \notin ReservedKeys /\ JsonOfFound(rows[k].value).is_some)
              => rows[k].key \in DOMAIN got.custom

\* C36: get_file never returns a Metadata whose custom map contains the key
\* 'title', 'tags' or 'alias': if a stored ParsedFile has a custom entry
\* under one of these keys, on read its JSON text is folded into title, tags
\* or alias respectively instead of custom, and a custom row whose value is
\* not parseable as JSON is dropped without error.
C36_NoReservedKeyInCustom ==
    /\ GotFile => (DOMAIN ret.res.val.val.metadata.custom) \cap ReservedKeys = {}
    /\ (GotFile /\ latest[ret.path].is_some) =>
          ReservedCustomFolded(latest[ret.path].val.metadata, ret.res.val.val.metadata)
    /\ (ret.op = "get_file" /\ ret.path = PathA /\ ~latest[PathA].is_some) =>
          /\ GotFile
          /\ FoundRowsDropped(RowsRead(PathA), ret.res.val.val.metadata)

\* C36 witness: get_file has returned, for a file stored with custom entries
\* under title and tags, a Metadata whose title and tags hold their JSON
\* text and whose custom map is empty
C36_Witness ==
    /\ GotFile
    /\ latest[ret.path] = Some(ParsedReservedBeside)
    /\ ret.res.val.val.metadata.title = Some(<<Quote, "U", Quote>>)
    /\ ret.res.val.val.metadata.tags = <<<<"t">>, <<"7">>>>
    /\ DOMAIN ret.res.val.val.metadata.custom = {}

\* get_file has returned without error for a file among whose rows are one
\* with a custom value that is JSON and one with a value that is not, and the
\* custom map holds the first only
C36_WitnessRowDropped ==
    /\ GotFile
    /\ ret.path = PathA
    /\ ~latest[PathA].is_some
    /\ ValuesUnder(RowsRead(PathA), "k") = <<<<"7">>>>
    /\ ValuesUnder(RowsRead(PathA), "j") = <<<<Quote, "v">>>>
    /\ DOMAIN ret.res.val.val.metadata.custom = {"k"}

====
